---- MODULE Spec2Model ----
(***************************************************************************)
(* The EPT shell: AppState (observable store), LogPanel (incremental log   *)
(* view), ProgressPanel and EPTAppShell (event handlers), as a state       *)
(* machine.  Handlers run to completion on one thread; an await splits a   *)
(* handler into the part before it and the part after the call settles.    *)
(***************************************************************************)
EXTENDS Integers, Sequences, FiniteSets, TLC

VARIABLES
    appState,     \* AppState: the nine store fields and the listeners array
    logPanel,     \* LogPanel: lastRenderedCount, lastLogLevel
    dom,          \* the document: #logs-panel children, select, buttons, progress
    now,          \* the instant new Date() gave when it was last read
    phase,        \* EPTAppShell.init: "checking", "ready" or "error"
    listening,    \* the three listener registrations: "off", "pending", "on", "failed"
    dialogs,      \* open() calls awaited, oldest first
    inputs,       \* handle_user_input calls awaited, oldest first
    jobs,         \* start_processing calls awaited, oldest first
    reveals,      \* open_folder / open_file calls awaited, oldest first
    lastOp        \* the handler that ran last, the store calls it made, the listeners called

vars == <<appState, logPanel, dom, now, phase, listening, dialogs, inputs, jobs,
          reveals, lastOp>>

-----------------------------------------------------------------------------
(* Bounds of the model *)

MaxLogs == 3          \* longest logs array explored
MaxInputs == 2        \* handle_user_input calls awaited at once
MaxJobs == 2          \* start_processing calls awaited at once
MaxDialogs == 1       \* open() dialogs awaited at once
MaxReveals == 1       \* open_folder / open_file calls awaited at once
MaxTime == 1          \* last clock tick explored
TicksPerSecond == 2   \* clock ticks within one displayed second
MaxListeners == 2     \* longest listeners array explored
MaxChanged == 1       \* most fields away from their initial values at once, store on its own
MaxProgress == 3       \* largest current and total passed to ProgressPanel.update

-----------------------------------------------------------------------------
(* Values *)

Null == "null"                      \* null of a string-valued field
NullResult == [isNull |-> TRUE]     \* null of processingResult

Truthy(s) == s # Null /\ s # ""

ShellListener == "shell"            \* the arrow function subscribed by the shell

\* new Date().toISOString(): the instant, to the millisecond, as text
toISOString(t) == [iso |-> t]

\* new Date(timestamp).toLocaleTimeString(): hours, minutes, seconds
toLocaleTimeString(timestamp) == timestamp.iso \div TicksPerSecond

toLowerCase(level) ==
    CASE level = "INFO" -> "info"
      [] level = "WARNING" -> "warning"
      [] level = "ERROR" -> "error"
      [] level = "WARN" -> "warn"
      [] OTHER -> level

-----------------------------------------------------------------------------
(* LogPanel *)

levelHierarchy(key) ==
    CASE key = "ERROR" -> 0
      [] key = "WARNING" -> 1
      [] key = "INFO" -> 2
      [] OTHER -> 2

\* shouldShowLog with a strict comparison
shouldShowLogStrictly(log, minLevel) ==
    levelHierarchy(log.level) < levelHierarchy(minLevel)

shouldShowLog(log, minLevel) ==
    LET minLevelIndex == levelHierarchy(minLevel)
        logLevelIndex == levelHierarchy(log.level)
    IN  logLevelIndex <= minLevelIndex

filterLogsByLevel(logs, minLevel) ==
    SelectSeq(logs, LAMBDA log : shouldShowLog(log, minLevel))

\* An element's identity is a pair <<generation, ordinal>>.  Elements that
\* are in the panel together differ in it; an element made by createElement
\* differs from every element in the panel when it is made.

\* <div class="log-empty">No logs yet</div>
EmptyMessage ==
    [kind |-> "log-empty", id |-> <<0, 0>>, className |-> "log-empty",
     timestamp |-> 0, level |-> "", message |-> "No logs yet"]

\* the generation of the log elements in the panel
generation(children) ==
    IF \E i \in 1..Len(children) : children[i].kind = "log-entry"
    THEN (CHOOSE n \in {children[i] : i \in 1..Len(children)} :
              n.kind = "log-entry").id[1]
    ELSE 1

\* the highest ordinal among the log elements in the panel
ordinal(children) ==
    Cardinality({i \in 1..Len(children) : children[i].kind = "log-entry"})

createLogElement(log, id) ==
    [kind |-> "log-entry", id |-> id,
     className |-> "log-entry log-" \o toLowerCase(log.level),
     timestamp |-> toLocaleTimeString(log.timestamp),
     level |-> "[" \o log.level \o "]",
     message |-> log.message]

\* forEach(createLogElement): one new element per log, in order
createLogElements(shown, gen, base) ==
    [i \in 1..Len(shown) |-> createLogElement(shown[i], <<gen, base + i>>)]

\* fullRender keeping the number of shown entries as lastRenderedCount
fullRenderCountingShown(w, logs, minLevel) ==
    LET filteredLogs == filterLogsByLevel(logs, minLevel)
        gen == 1 - generation(w.dom.logsPanel)
    IN  IF Len(filteredLogs) = 0
        THEN [w EXCEPT !.dom.logsPanel = <<EmptyMessage>>,
                       !.logPanel.lastRenderedCount = 0]
        ELSE [w EXCEPT !.dom.logsPanel = createLogElements(filteredLogs, gen, 0),
                       !.logPanel.lastRenderedCount = Len(filteredLogs)]

fullRender(w, logs, minLevel) ==
    LET filteredLogs == filterLogsByLevel(logs, minLevel)
        gen == 1 - generation(w.dom.logsPanel)
    IN  IF Len(filteredLogs) = 0
        THEN [w EXCEPT !.dom.logsPanel = <<EmptyMessage>>,
                       !.logPanel.lastRenderedCount = Len(logs)]
        ELSE [w EXCEPT !.dom.logsPanel = createLogElements(filteredLogs, gen, 0),
                       !.logPanel.lastRenderedCount = Len(logs)]

\* container.querySelector(".log-empty")?.remove(): the first such child
removeEmptyMessage(children) ==
    IF \E i \in 1..Len(children) : children[i].kind = "log-empty"
    THEN LET k == CHOOSE i \in 1..Len(children) :
                      /\ children[i].kind = "log-empty"
                      /\ \A j \in 1..(i - 1) : children[j].kind # "log-empty"
         IN  SubSeq(children, 1, k - 1) \o SubSeq(children, k + 1, Len(children))
    ELSE children

\* slice one entry early: the last rendered entry is taken again
sliceFromLastRendered(logs, start) ==
    SubSeq(logs, IF start > 0 THEN start ELSE 1, Len(logs))

slice(logs, start) == SubSeq(logs, start + 1, Len(logs))

\* append by rendering the whole log again
appendLogsByFullRender(w, logs, minLevel) == fullRender(w, logs, minLevel)

\* appendLogs that leaves the "No logs yet" message where it is
appendLogsKeepingEmptyMessage(w, logs, minLevel) ==
    LET kept == w.dom.logsPanel
        newLogs == slice(logs, w.logPanel.lastRenderedCount)
        shown == SelectSeq(newLogs, LAMBDA log : shouldShowLog(log, minLevel))
        made == createLogElements(shown, generation(kept), ordinal(kept))
    IN  [w EXCEPT !.dom.logsPanel = kept \o made,
                  !.logPanel.lastRenderedCount = Len(logs)]

appendLogs(w, logs, minLevel) ==
    LET kept == removeEmptyMessage(w.dom.logsPanel)
        newLogs == slice(logs, w.logPanel.lastRenderedCount)
        shown == SelectSeq(newLogs, LAMBDA log : shouldShowLog(log, minLevel))
        made == createLogElements(shown, generation(kept), ordinal(kept))
    IN  [w EXCEPT !.dom.logsPanel = kept \o made,
                  !.logPanel.lastRenderedCount = Len(logs)]

\* update without the check for a shorter log
updateIgnoringShrink(w, logs, selectedLogLevel) ==
    IF ~w.dom.mounted THEN w
    ELSE
    LET needsFullRender == selectedLogLevel # w.logPanel.lastLogLevel
        w1 == [w EXCEPT !.dom.logLevelSelect = selectedLogLevel,
                        !.logPanel.lastLogLevel = selectedLogLevel]
    IN  IF needsFullRender THEN fullRender(w1, logs, selectedLogLevel)
        ELSE IF Len(logs) > w1.logPanel.lastRenderedCount
             THEN appendLogs(w1, logs, selectedLogLevel)
             ELSE w1

\* update that also drops from the store the entries it does not show
updatePruningHidden(w, logs, selectedLogLevel) ==
    LET u == updateIgnoringShrink(w, logs, selectedLogLevel)
    IN  [u EXCEPT !.appState.logs = filterLogsByLevel(logs, selectedLogLevel)]

\* update without `this.lastLogLevel = selectedLogLevel`
updateForgettingLevel(w, logs, selectedLogLevel) ==
    IF ~w.dom.mounted THEN w
    ELSE
    LET needsFullRender ==
            \/ selectedLogLevel # w.logPanel.lastLogLevel
            \/ Len(logs) < w.logPanel.lastRenderedCount
        w1 == [w EXCEPT !.dom.logLevelSelect = selectedLogLevel]
    IN  IF needsFullRender THEN fullRender(w1, logs, selectedLogLevel)
        ELSE IF Len(logs) > w1.logPanel.lastRenderedCount
             THEN appendLogs(w1, logs, selectedLogLevel)
             ELSE w1

\* update that renders the whole log on every call
updateAlwaysRendering(w, logs, selectedLogLevel) ==
    IF ~w.dom.mounted THEN w
    ELSE fullRender([w EXCEPT !.dom.logLevelSelect = selectedLogLevel,
                              !.logPanel.lastLogLevel = selectedLogLevel],
                    logs, selectedLogLevel)

update(w, logs, selectedLogLevel) ==
    IF ~w.dom.mounted THEN w
    ELSE
    LET needsFullRender ==
            \/ selectedLogLevel # w.logPanel.lastLogLevel
            \/ Len(logs) < w.logPanel.lastRenderedCount
        w1 == [w EXCEPT !.dom.logLevelSelect = selectedLogLevel,
                        !.logPanel.lastLogLevel = selectedLogLevel]
    IN  IF needsFullRender THEN fullRender(w1, logs, selectedLogLevel)
        ELSE IF Len(logs) > w1.logPanel.lastRenderedCount
             THEN appendLogs(w1, logs, selectedLogLevel)
             ELSE w1

-----------------------------------------------------------------------------
(* ProgressPanel *)

\* Math.min(100, Math.round((current / total) * 100)), for total > 0
percentage(current, total) ==
    LET rounded == (200 * current + total) \div (2 * total)
    IN  IF rounded < 100 THEN rounded ELSE 100

\* update with classList.toggle in place of classList.add
ProgressPanel_updateToggling(w, current, total, taskCategory, isProcessing, statusMessage) ==
    IF ~w.dom.mounted THEN w
    ELSE
    LET w1 == [w EXCEPT
                 !.dom.progressSectionDisplay = IF isProcessing THEN "block" ELSE "none",
                 !.dom.statusMessageHtml = statusMessage,
                 !.dom.statusMessageDisplay = IF statusMessage # "" THEN "block" ELSE "none"]
    IN  IF ~isProcessing THEN w1
        ELSE [w1 EXCEPT
                 !.dom.progressBarFill =
                     IF total > 0
                     THEN [width |-> percentage(current, total), opacity |-> "1",
                           indeterminate |-> FALSE]
                     ELSE [width |-> 100, opacity |-> "0.6",
                           indeterminate |-> ~w.dom.progressBarFill.indeterminate],
                 !.dom.progressText =
                     IF total > 0 THEN ToString(current) \o " / " \o ToString(total)
                     ELSE "...",
                 !.dom.taskCategory = taskCategory]

ProgressPanel_update(w, current, total, taskCategory, isProcessing, statusMessage) ==
    IF ~w.dom.mounted THEN w
    ELSE
    LET w1 == [w EXCEPT
                 !.dom.progressSectionDisplay = IF isProcessing THEN "block" ELSE "none",
                 !.dom.statusMessageHtml = statusMessage,
                 !.dom.statusMessageDisplay = IF statusMessage # "" THEN "block" ELSE "none"]
    IN  IF ~isProcessing THEN w1
        ELSE [w1 EXCEPT
                 !.dom.progressBarFill =
                     IF total > 0
                     THEN [width |-> percentage(current, total), opacity |-> "1",
                           indeterminate |-> FALSE]
                     ELSE [width |-> 100, opacity |-> "0.6", indeterminate |-> TRUE],
                 !.dom.progressText =
                     IF total > 0 THEN ToString(current) \o " / " \o ToString(total)
                     ELSE "...",
                 !.dom.taskCategory = taskCategory]

-----------------------------------------------------------------------------
(* EPTAppShell: what the store's subscriber does *)

\* updateUI with goButton.disabled = false whenever a path is selected
updateUIEnablingGo(w) ==
    IF ~w.dom.mounted THEN w
    ELSE
    LET a == w.appState
        w1 == IF Truthy(a.selectedPath)
              THEN [w EXCEPT
                      !.dom.selectedPathDisplay = "flex",
                      !.dom.selectedPathText = a.selectedPath,
                      !.dom.dropZoneDisplay = "none",
                      !.dom.goDisabled = FALSE,
                      !.dom.goDisplay = IF a.processingResult # NullResult
                                        THEN "none" ELSE "block",
                      !.dom.startOverDisplay = "block"]
              ELSE [w EXCEPT
                      !.dom.selectedPathDisplay = "none",
                      !.dom.dropZoneDisplay = "",
                      !.dom.goDisabled = TRUE,
                      !.dom.goDisplay = "block",
                      !.dom.startOverDisplay = "none"]
    IN  [w1 EXCEPT !.dom.resultActionsDisplay =
            IF a.processingResult # NullResult /\ ~a.isProcessing
            THEN "flex" ELSE "none"]

updateUI(w) ==
    IF ~w.dom.mounted THEN w
    ELSE
    LET a == w.appState
        w1 == IF Truthy(a.selectedPath)
              THEN [w EXCEPT
                      !.dom.selectedPathDisplay = "flex",
                      !.dom.selectedPathText = a.selectedPath,
                      !.dom.dropZoneDisplay = "none",
                      !.dom.goDisabled = a.isProcessing,
                      !.dom.goDisplay = IF a.processingResult # NullResult
                                        THEN "none" ELSE "block",
                      !.dom.startOverDisplay = "block"]
              ELSE [w EXCEPT
                      !.dom.selectedPathDisplay = "none",
                      !.dom.dropZoneDisplay = "",
                      !.dom.goDisabled = TRUE,
                      !.dom.goDisplay = "block",
                      !.dom.startOverDisplay = "none"]
    IN  [w1 EXCEPT !.dom.resultActionsDisplay =
            IF a.processingResult # NullResult /\ ~a.isProcessing
            THEN "flex" ELSE "none"]

updateComponents(w) ==
    LET a == w.appState
        w1 == update(w, a.logs, a.selectedLogLevel)
    IN  ProgressPanel_update(w1, a.progressCurrent, a.progressTotal,
                             a.currentTaskCategory, a.isProcessing, a.statusMessage)

-----------------------------------------------------------------------------
(* AppState *)

\* what a listener can read of the store: the nine public fields
Fields(a) == [a EXCEPT !.listeners = <<>>]

\* the record of what the store did, in the order it did it
traced(w, e) == [w EXCEPT !.delivered = Append(@, e)]

RECURSIVE callListener(_, _)

\* forEach reading this.listeners anew at every index
RECURSIVE forEachLive(_, _, _, _)
forEachLive(w, O, len, k) ==
    IF k > len THEN w
    ELSE IF k > Len(w.appState.listeners) THEN forEachLive(w, O, len, k + 1)
    ELSE forEachLive(callListener(w, w.appState.listeners[k]), O, len, k + 1)

\* Array.prototype.forEach on the array O: len is read once, before the first
\* call; index k is visited if O has it.  O stands for the array the loop was
\* started on: push adds past len, and the function subscribe returns puts
\* another array in this.listeners, so O's elements up to len stay as they
\* were when the loop started.
RECURSIVE forEach(_, _, _, _)
forEach(w, O, len, k) ==
    IF k > len THEN w
    ELSE IF k > Len(O) THEN forEach(w, O, len, k + 1)
    ELSE forEach(callListener(w, O[k]), O, len, k + 1)

\* notify that does nothing when a notification is already being delivered
notifyUnlessNotifying(w) ==
    IF w.depth > 0 THEN w
    ELSE
    LET O == w.appState.listeners
        w1 == traced([w EXCEPT !.depth = 1],
                     [event |-> "notify", depth |-> 1, registered |-> O])
        w2 == forEach(w1, O, Len(O), 1)
    IN  traced([w2 EXCEPT !.depth = 0], [event |-> "done", depth |-> 1])

notify(w) ==
    LET O == w.appState.listeners
        d == w.depth + 1
        w1 == traced([w EXCEPT !.depth = d],
                     [event |-> "notify", depth |-> d, registered |-> O])
        w2 == forEach(w1, O, Len(O), 1)
    IN  traced([w2 EXCEPT !.depth = d - 1], [event |-> "done", depth |-> d])

\* a mutation method entered
called(w, name) ==
    traced([w EXCEPT !.calls = Append(@, name)],
           [event |-> "mutation", depth |-> w.depth, name |-> name])

setSelectedPath(w, path) ==
    notify(called([w EXCEPT !.appState.selectedPath = path], "setSelectedPath"))

setProcessing(w, isProcessing) ==
    notify(called([w EXCEPT !.appState.isProcessing = isProcessing], "setProcessing"))

setProcessingResult(w, result) ==
    notify(called([w EXCEPT !.appState.processingResult = result],
                  "setProcessingResult"))

\* setSelectedLogLevel that also empties the log
setSelectedLogLevelDroppingLogs(w, level) ==
    notify(called([w EXCEPT !.appState.selectedLogLevel = level,
                            !.appState.logs = <<>>],
                  "setSelectedLogLevel"))

setSelectedLogLevel(w, level) ==
    notify(called([w EXCEPT !.appState.selectedLogLevel = level],
                  "setSelectedLogLevel"))

updateProgress(w, current, total, taskCategory) ==
    notify(called([w EXCEPT !.appState.progressCurrent = current,
                            !.appState.progressTotal = total,
                            !.appState.currentTaskCategory = taskCategory],
                  "updateProgress"))

\* setStatusMessage that notifies only when the message changes
setStatusMessageIfChanged(w, message) ==
    IF w.appState.statusMessage = message
    THEN called(w, "setStatusMessage")
    ELSE notify(called([w EXCEPT !.appState.statusMessage = message],
                       "setStatusMessage"))

setStatusMessage(w, message) ==
    notify(called([w EXCEPT !.appState.statusMessage = message], "setStatusMessage"))

\* addLog with unshift in place of push
addLogAtFront(w, level, message, instant) ==
    LET timestamp == toISOString(instant)
        entry == [level |-> level, message |-> message, timestamp |-> timestamp]
    IN  notify(called([w EXCEPT !.appState.logs = <<entry>> \o @], "addLog"))

\* addLog, with `instant` what new Date() gives
addLogAt(w, level, message, instant) ==
    LET timestamp == toISOString(instant)
        entry == [level |-> level, message |-> message, timestamp |-> timestamp]
    IN  notify(called([w EXCEPT !.appState.logs = Append(@, entry)], "addLog"))

addLog(w, level, message) == addLogAt(w, level, message, now')

clearLogs(w) ==
    notify(called([w EXCEPT !.appState.logs = <<>>], "clearLogs"))

\* reset that notifies before it assigns the fields
resetNotifyingFirst(w) ==
    LET n == notify(called(w, "reset"))
    IN  [n EXCEPT !.appState.selectedPath = Null,
                  !.appState.isProcessing = FALSE,
                  !.appState.logs = <<>>,
                  !.appState.processingResult = NullResult,
                  !.appState.selectedLogLevel = "WARNING",
                  !.appState.progressCurrent = 0,
                  !.appState.progressTotal = 0,
                  !.appState.currentTaskCategory = "",
                  !.appState.statusMessage = ""]

reset(w) ==
    notify(called([w EXCEPT !.appState.selectedPath = Null,
                            !.appState.isProcessing = FALSE,
                            !.appState.logs = <<>>,
                            !.appState.processingResult = NullResult,
                            !.appState.selectedLogLevel = "WARNING",
                            !.appState.progressCurrent = 0,
                            !.appState.progressTotal = 0,
                            !.appState.currentTaskCategory = "",
                            !.appState.statusMessage = ""],
                  "reset"))

\* AppState.subscribe: the listeners array after the push
subscribe(listeners, listener) == Append(listeners, listener)

\* the function subscribe returns, called: a filtered copy of the array
unsubscribe(listeners, listener) == SelectSeq(listeners, LAMBDA l : l # listener)

\* subscribe(listener) called
subscribed(w, listener) ==
    traced([w EXCEPT !.appState.listeners = subscribe(@, listener)],
           [event |-> "subscribe", depth |-> w.depth, listener |-> listener])

\* the function subscribe(listener) returned, called
unsubscribed(w, listener) ==
    traced([w EXCEPT !.appState.listeners = unsubscribe(@, listener)],
           [event |-> "unsubscribe", depth |-> w.depth, listener |-> listener])

-----------------------------------------------------------------------------
(* Listeners *)

\* the functions given to subscribe, besides the shell's: one that only
\* reads the store; one that unsubscribes itself; one that unsubscribes the
\* reader; one that subscribes the reader; two that mutate the store from
\* within the notification until the state they want is reached
Subscribers ==
    {"observer", "oneShot", "remover", "recruiter", "reentrant", "finisher"}

\* listener(): the call forEach makes
callListener(w, listener) ==
    LET w1 == traced(w, [event |-> "call", depth |-> w.depth, listener |-> listener,
                         observed |-> Fields(w.appState)])
    IN  CASE listener = ShellListener -> updateComponents(updateUI(w1))
          [] listener = "observer" -> w1
          [] listener = "oneShot" -> unsubscribed(w1, "oneShot")
          [] listener = "remover" -> unsubscribed(w1, "observer")
          [] listener = "recruiter" -> subscribed(w1, "observer")
          [] listener = "reentrant" ->
                IF w1.appState.statusMessage # "done"
                THEN setStatusMessage(w1, "done") ELSE w1
          [] listener = "finisher" ->
                IF w1.appState.statusMessage = "done" /\ w1.appState.isProcessing
                THEN setProcessing(w1, FALSE) ELSE w1

-----------------------------------------------------------------------------
(* The environment: what the user, the dialogs and the backend can supply *)

RawPaths == {"x", "y"}

\* handle_user_input, when it accepts the path: the canonical path
normalized(path) == "/" \o path

\* the options of #log-level-select
LogLevelOptions == {"INFO", "WARNING", "ERROR"}

\* log-entry payloads pushed by the backend
LogPayloads ==
    { [level |-> "INFO", message |-> "a"],
      [level |-> "WARNING", message |-> "b"],
      [level |-> "ERROR", message |-> "c"] }

\* progress-update payloads pushed by the backend
ProgressPayloads ==
    { [current |-> 1, total |-> 2, task_category |-> "convert"],
      [current |-> 3, total |-> 0, task_category |-> "scan"] }

ReportModel(processed) == [file_name |-> "f", processed |-> processed]

\* a ProcessingResult with ten entries, seven of them processed
GoodResult ==
    [entries |-> [i \in 1..10 |-> ReportModel(IF i <= 7 THEN "Yes" ELSE "No")],
     staging_path |-> "/stg", llm_output_path |-> "/llm", report_path |-> "/rep"]

\* a value start_processing resolves with that has no entries array
MalformedResult ==
    [staging_path |-> "/stg", llm_output_path |-> "/llm", report_path |-> "/rep"]

\* how an awaited start_processing call can settle
JobOutcomes ==
    { [ok |-> TRUE, result |-> GoodResult],
      [ok |-> TRUE, result |-> MalformedResult],
      [ok |-> FALSE, error |-> "engine failed"] }

\* what an awaited open() can settle to
DialogOutcomes ==
    { [type |-> "null"],
      [type |-> "string", value |-> "x"],
      [type |-> "string", value |-> ""],
      [type |-> "array", values |-> <<>>],
      [type |-> "array", values |-> <<"y", "x">>],
      [type |-> "throw", error |-> "dialog failed"] }

NoFile == [path |-> "", webkitRelativePath |-> "", name |-> ""]

\* browser drop events: dataTransfer.files and dataTransfer.items
DropEvents ==
    { [files |-> <<[NoFile EXCEPT !.path = "x", !.name = "x"]>>, items |-> <<>>],
      [files |-> <<[NoFile EXCEPT !.webkitRelativePath = "y", !.name = "y"]>>,
       items |-> <<>>],
      [files |-> <<[NoFile EXCEPT !.name = "n"]>>,
       items |-> <<[kind |-> "file", file |-> [NoFile EXCEPT !.name = "n"]]>>],
      [files |-> <<>>,
       items |-> <<[kind |-> "string", file |-> NoFile],
                   [kind |-> "file", file |-> [NoFile EXCEPT !.path = "y", !.name = "y"]]>>],
      [files |-> <<[NoFile EXCEPT !.name = "n"]>>,
       items |-> <<[kind |-> "file", file |-> [NoFile EXCEPT !.path = "y", !.name = "n"]]>>],
      [files |-> <<>>, items |-> <<>>] }

\* native drop events: payload.paths
NativeDrops == { <<>>, <<"x", "y">> }

\* native drop events: event.payload, with or without a paths array
NativePayloads ==
    { [type |-> "drop"],
      [type |-> "drop", paths |-> <<>>],
      [type |-> "drop", paths |-> <<"x", "y">>] }

\* dropEvent.paths as the listener's test dropEvent.paths &&
\* dropEvent.paths.length > 0 sees it: a missing array counts as an empty one
droppedPaths(dropEvent) ==
    IF "paths" \in DOMAIN dropEvent THEN dropEvent.paths ELSE <<>>

-----------------------------------------------------------------------------
(* The state after construction *)

InitialAppState ==
    [selectedPath |-> Null, isProcessing |-> FALSE, logs |-> <<>>,
     processingResult |-> NullResult, selectedLogLevel |-> "WARNING",
     progressCurrent |-> 0, progressTotal |-> 0, currentTaskCategory |-> "",
     statusMessage |-> "", listeners |-> <<>>]

\* the document as the render() templates leave it
RenderedDom ==
    [mounted |-> TRUE,
     logsPanel |-> <<EmptyMessage>>, logLevelSelect |-> "WARNING",
     selectedPathDisplay |-> "none", selectedPathText |-> "", dropZoneDisplay |-> "",
     goDisabled |-> TRUE, goDisplay |-> "", startOverDisplay |-> "none",
     resultActionsDisplay |-> "none",
     progressSectionDisplay |-> "none", statusMessageHtml |-> "",
     statusMessageDisplay |-> "",
     progressBarFill |-> [width |-> 0, opacity |-> "", indeterminate |-> FALSE],
     progressText |-> "0 / 0", taskCategory |-> ""]

NoDom == [RenderedDom EXCEPT !.mounted = FALSE, !.logsPanel = <<>>]

Quiet ==
    /\ listening = [log |-> "off", progress |-> "off", dragDrop |-> "off"]
    /\ dialogs = <<>> /\ inputs = <<>> /\ jobs = <<>> /\ reveals = <<>>
    /\ lastOp = [handler |-> "constructor", calls |-> <<>>, delivered |-> <<>>,
                 changed |-> FALSE]

\* new EPTAppShell(): the store, the panels, the subscription; init() awaits
\* check_libreoffice
Init ==
    /\ appState = [InitialAppState EXCEPT
                     !.listeners = subscribe(InitialAppState.listeners, ShellListener)]
    /\ logPanel = [lastRenderedCount |-> 0, lastLogLevel |-> ""]
    /\ dom = NoDom
    /\ now = 0
    /\ phase = "checking"
    /\ Quiet

-----------------------------------------------------------------------------
(* Handlers *)

World == [appState |-> appState, logPanel |-> logPanel, dom |-> dom,
          depth |-> 0, calls |-> <<>>, delivered |-> <<>>]

\* the handler `name` ran to its end (or to its await) and left `w`
Commit(w, name) ==
    /\ Len(w.appState.logs) <= MaxLogs
    /\ Len(w.appState.listeners) <= MaxListeners
    /\ appState' = w.appState
    /\ logPanel' = w.logPanel
    /\ dom' = w.dom
    /\ lastOp' = [handler |-> name, calls |-> w.calls, delivered |-> w.delivered,
                  changed |-> Fields(w.appState) # Fields(appState)]

Remove(seq, i) == SubSeq(seq, 1, i - 1) \o SubSeq(seq, i + 1, Len(seq))

\* new Date() in a handler: the clock has not gone back since the last read
ClockRead == now' \in {t \in {now, now + 1} : t <= MaxTime}

\* a handler that reads the clock only on the path where it logs
ClockReadIf(logs) == IF logs THEN ClockRead ELSE now' = now

\* init(): check_libreoffice answered true
InitAvailable ==
    /\ phase = "checking"
    /\ phase' = "ready"
    /\ listening' = [log |-> "pending", progress |-> "pending", dragDrop |-> "pending"]
    /\ appState' = appState
    /\ logPanel' = logPanel
    /\ dom' = RenderedDom
    /\ lastOp' = [handler |-> "init", calls |-> <<>>, delivered |-> <<>>,
                  changed |-> FALSE]
    /\ UNCHANGED <<now, dialogs, inputs, jobs, reveals>>

\* init() without its two returns: the error screen, then the main UI
InitUnavailableFallingThrough ==
    /\ phase = "checking"
    /\ phase' = "error"
    /\ listening' = [log |-> "pending", progress |-> "pending", dragDrop |-> "pending"]
    /\ dom' = RenderedDom
    /\ lastOp' = [handler |-> "renderLibreOfficeError", calls |-> <<>>,
                  delivered |-> <<>>, changed |-> FALSE]
    /\ UNCHANGED <<appState, logPanel, now, dialogs, inputs, jobs, reveals>>

\* init(): check_libreoffice answered false or threw
InitUnavailable ==
    /\ phase = "checking"
    /\ phase' = "error"
    /\ lastOp' = [handler |-> "renderLibreOfficeError", calls |-> <<>>,
                  delivered |-> <<>>, changed |-> FALSE]
    /\ UNCHANGED <<appState, logPanel, dom, now, listening, dialogs, inputs, jobs,
                   reveals>>

\* click on #quit-button of the error screen: quit_app is invoked
QuitClick ==
    /\ phase = "error"
    /\ lastOp' = [handler |-> "quit-button", calls |-> <<>>, delivered |-> <<>>,
                  changed |-> FALSE]
    /\ UNCHANGED <<appState, logPanel, dom, now, phase, listening, dialogs, inputs,
                   jobs, reveals>>

\* setupLogListener / setupProgressListener: the awaited listen() settles
ListenSettles(which, ok) ==
    /\ which \in {"log", "progress"}
    /\ listening[which] = "pending"
    /\ listening' = [listening EXCEPT ![which] = IF ok THEN "on" ELSE "failed"]
    /\ lastOp' = [handler |-> "listen", calls |-> <<>>, delivered |-> <<>>,
                  changed |-> FALSE]
    /\ UNCHANGED <<appState, logPanel, dom, now, phase, dialogs, inputs, jobs, reveals>>

\* setupTauriDragDrop: the awaited onDragDropEvent() settles
DragDropSettles(ok) ==
    /\ listening.dragDrop = "pending"
    /\ listening' = [listening EXCEPT !.dragDrop = IF ok THEN "on" ELSE "failed"]
    /\ ClockReadIf(~ok)
    /\ Commit(IF ok THEN World
              ELSE addLog(World, "WARN",
                     "Tauri drag and drop not available, falling back to web API"),
              "setupTauriDragDrop")
    /\ UNCHANGED <<phase, dialogs, inputs, jobs, reveals>>

\* the log-entry listener
LogEntryEvent(payload) ==
    /\ listening.log = "on"
    /\ ClockRead
    /\ Commit(addLog(World, payload.level, payload.message), "log-entry")
    /\ UNCHANGED <<phase, listening, dialogs, inputs, jobs, reveals>>

\* the progress-update listener
ProgressUpdateEvent(payload) ==
    /\ listening.progress = "on"
    /\ Commit(updateProgress(World, payload.current, payload.total,
                             payload.task_category), "progress-update")
    /\ UNCHANGED <<now, phase, listening, dialogs, inputs, jobs, reveals>>

\* LogPanel.attachListeners: click on #clear-logs-button
ClearLogsClick ==
    /\ dom.mounted
    /\ Commit([clearLogs(World) EXCEPT !.logPanel.lastRenderedCount = 0],
              "clear-logs-button")
    /\ UNCHANGED <<now, phase, listening, dialogs, inputs, jobs, reveals>>

\* LogPanel.attachListeners: change of #log-level-select
LogLevelChange(value) ==
    /\ dom.mounted /\ value # dom.logLevelSelect
    /\ Commit(setSelectedLogLevel([World EXCEPT !.dom.logLevelSelect = value], value),
              "log-level-select")
    /\ UNCHANGED <<now, phase, listening, dialogs, inputs, jobs, reveals>>

\* click on #start-over-button: resetState
StartOverClick ==
    /\ dom.mounted /\ dom.startOverDisplay # "none"
    /\ Commit(reset(World), "start-over-button")
    /\ UNCHANGED <<now, phase, listening, dialogs, inputs, jobs, reveals>>

\* click on #clear-button
ClearButtonClick ==
    /\ dom.mounted /\ dom.selectedPathDisplay # "none"
    /\ Commit(setSelectedPath(World, Null), "clear-button")
    /\ UNCHANGED <<now, phase, listening, dialogs, inputs, jobs, reveals>>

\* handleUserInput up to its await: handle_user_input is invoked
handleUserInput(path) ==
    /\ Len(inputs) < MaxInputs
    /\ inputs' = Append(inputs, path)

\* handleUserInput after its await
InputSettles(i, ok) ==
    /\ i \in 1..Len(inputs)
    /\ inputs' = Remove(inputs, i)
    /\ ClockRead
    /\ LET normalizedPath == normalized(inputs[i])
       IN  Commit(IF ok
                  THEN addLog(setSelectedPath(World, normalizedPath), "INFO",
                              "Selected: " \o normalizedPath)
                  ELSE addLog(World, "ERROR", "Invalid path: " \o "invalid path"),
                  "handleUserInput")
    /\ UNCHANGED <<phase, listening, dialogs, jobs, reveals>>

\* droppedFilePath that falls back to the name of the file
droppedFilePathOrName(files) ==
    IF Len(files) = 0 THEN Null
    ELSE IF files[1].path # "" THEN files[1].path
    ELSE IF files[1].webkitRelativePath # "" THEN files[1].webkitRelativePath
    ELSE IF files[1].name # "" THEN files[1].name
    ELSE Null

\* the path the drop handler takes from dataTransfer.files[0], or Null
droppedFilePath(files) ==
    IF Len(files) = 0 THEN Null
    ELSE IF files[1].path # "" THEN files[1].path
    ELSE IF files[1].webkitRelativePath # "" THEN files[1].webkitRelativePath
    ELSE Null

\* the path the drop handler takes from dataTransfer.items, or Null
droppedItemPath(items) ==
    IF \E i \in 1..Len(items) : items[i].kind = "file" /\ items[i].file.path # ""
    THEN LET k == CHOOSE i \in 1..Len(items) :
                      /\ items[i].kind = "file" /\ items[i].file.path # ""
                      /\ \A j \in 1..(i - 1) :
                             ~(items[j].kind = "file" /\ items[j].file.path # "")
         IN  items[k].file.path
    ELSE Null

\* the drop listener of #drop-zone up to its await or its end: the world
\* after its log entries and the path it passes to handleUserInput, or Null
dropHandled(w, e) ==
    LET file == IF Len(e.files) > 0 THEN e.files[1] ELSE NoFile
        filePath == droppedFilePath(e.files)
        warned == IF Len(e.files) > 0 /\ filePath = Null /\ file.name # ""
                  THEN addLog(w, "WARN",
                              "File dropped but no path found. File name: "
                              \o file.name \o ". This may not work for folders.")
                  ELSE w
        path == IF filePath # Null THEN filePath ELSE droppedItemPath(e.items)
    IN  IF path # Null
        THEN [w |-> addLog(warned, "INFO", "Processing dropped item: " \o path),
              path |-> path]
        ELSE [w |-> addLog(warned, "ERROR",
                      "No files found in drop event or could not extract path"),
              path |-> Null]

\* nativeDropHandled that takes the last of the paths
nativeDropHandledLast(w, paths) ==
    IF Len(paths) > 0
    THEN [w |-> addLog(w, "INFO", "Processing dropped item: " \o paths[Len(paths)]),
          path |-> paths[Len(paths)]]
    ELSE [w |-> addLog(w, "ERROR", "No paths found in drop event"),
          path |-> Null]

\* the onDragDropEvent listener for type "drop", likewise
nativeDropHandled(w, paths) ==
    IF Len(paths) > 0
    THEN [w |-> addLog(w, "INFO", "Processing dropped item: " \o paths[1]),
          path |-> paths[1]]
    ELSE [w |-> addLog(w, "ERROR", "No paths found in drop event"),
          path |-> Null]

\* drop on #drop-zone
DropEvent(e) ==
    /\ dom.mounted /\ dom.dropZoneDisplay # "none"
    /\ ClockRead
    /\ LET handled == dropHandled(World, e)
       IN  /\ IF handled.path # Null THEN handleUserInput(handled.path)
              ELSE inputs' = inputs
           /\ Commit(handled.w, "drop")
    /\ UNCHANGED <<phase, listening, dialogs, jobs, reveals>>

\* the onDragDropEvent listener, event type "drop"
NativeDropEvent(paths) ==
    /\ listening.dragDrop = "on"
    /\ ClockRead
    /\ LET handled == nativeDropHandled(World, paths)
       IN  /\ IF handled.path # Null THEN handleUserInput(handled.path)
              ELSE inputs' = inputs
           /\ Commit(handled.w, "native-drop")
    /\ UNCHANGED <<phase, listening, dialogs, jobs, reveals>>

\* One drop by the user that the webview delivers both to the
\* onDragDropEvent listener and, as a DOM drop event, to the listener of
\* #drop-zone: both listeners are registered and neither knows of the other.
\* Each runs to its await, in either order.
DropGesture(paths, e) ==
    /\ listening.dragDrop = "on"
    /\ dom.mounted /\ dom.dropZoneDisplay # "none"
    /\ ClockRead
    /\ \E nativeFirst \in BOOLEAN :
         LET first == IF nativeFirst THEN nativeDropHandled(World, paths)
                      ELSE dropHandled(World, e)
             second == IF nativeFirst THEN dropHandled(first.w, e)
                       ELSE nativeDropHandled(first.w, paths)
             candidates == SelectSeq(<<first.path, second.path>>,
                                     LAMBDA c : c # Null)
         IN  /\ Len(inputs) + Len(candidates) <= MaxInputs
             /\ inputs' = inputs \o candidates
             /\ Commit(second.w, "drop-gesture")
    /\ UNCHANGED <<phase, listening, dialogs, jobs, reveals>>

\* click on #browse-button ("directory") or #browse-zip-button ("file"):
\* open() is awaited
BrowseClick(kind) ==
    /\ dom.mounted /\ dom.dropZoneDisplay # "none"
    /\ Len(dialogs) < MaxDialogs
    /\ dialogs' = Append(dialogs, kind)
    /\ lastOp' = [handler |-> "browse", calls |-> <<>>, delivered |-> <<>>,
                  changed |-> FALSE]
    /\ UNCHANGED <<appState, logPanel, dom, now, phase, listening, inputs, jobs,
                   reveals>>

\* the browse handlers taking the last element of a list
DialogSettlesTakingLast(i, outcome) ==
    /\ i \in 1..Len(dialogs)
    /\ dialogs' = Remove(dialogs, i)
    /\ ClockReadIf(outcome.type = "throw")
    /\ CASE outcome.type = "string" /\ outcome.value # "" ->
              /\ handleUserInput(outcome.value)
              /\ Commit(World, "browse")
         [] outcome.type = "array" /\ Len(outcome.values) > 0 ->
              /\ handleUserInput(outcome.values[Len(outcome.values)])
              /\ Commit(World, "browse")
         [] outcome.type = "throw" ->
              /\ inputs' = inputs
              /\ Commit(addLog(World, "ERROR",
                          "Failed to open " \o dialogs[i] \o " dialog: "
                          \o outcome.error),
                        "browse")
         [] OTHER ->
              /\ inputs' = inputs
              /\ Commit(World, "browse")
    /\ UNCHANGED <<phase, listening, jobs, reveals>>

\* the browse handlers after open() settled
DialogSettles(i, outcome) ==
    /\ i \in 1..Len(dialogs)
    /\ dialogs' = Remove(dialogs, i)
    /\ ClockReadIf(outcome.type = "throw")
    /\ CASE outcome.type = "string" /\ outcome.value # "" ->
              /\ handleUserInput(outcome.value)
              /\ Commit(World, "browse")
         [] outcome.type = "array" /\ Len(outcome.values) > 0 ->
              /\ handleUserInput(outcome.values[1])
              /\ Commit(World, "browse")
         [] outcome.type = "throw" ->
              /\ inputs' = inputs
              /\ Commit(addLog(World, "ERROR",
                          "Failed to open " \o dialogs[i] \o " dialog: "
                          \o outcome.error),
                        "browse")
         [] OTHER ->
              /\ inputs' = inputs
              /\ Commit(World, "browse")
    /\ UNCHANGED <<phase, listening, jobs, reveals>>

\* startProcessing that only asks for a selected path
startProcessingWhileProcessing(w) ==
    IF ~Truthy(w.appState.selectedPath) THEN w
    ELSE addLog(updateProgress(setProcessingResult(setProcessing(w, TRUE),
                                                   NullResult),
                               0, 0, ""),
                "INFO", "Starting processing...")

\* startProcessing up to its await
startProcessing(w) ==
    IF ~Truthy(w.appState.selectedPath) \/ w.appState.isProcessing THEN w
    ELSE addLog(updateProgress(setProcessingResult(setProcessing(w, TRUE),
                                                   NullResult),
                               0, 0, ""),
                "INFO", "Starting processing...")

\* click on #go-button
GoClick ==
    /\ dom.mounted /\ ~dom.goDisabled /\ dom.goDisplay # "none"
    /\ ClockReadIf(Truthy(appState.selectedPath) /\ ~appState.isProcessing)
    /\ IF Truthy(appState.selectedPath) /\ ~appState.isProcessing
       THEN /\ Len(jobs) < MaxJobs
            /\ jobs' = Append(jobs, appState.selectedPath)
            /\ Commit(startProcessing(World), "go-button")
       ELSE /\ jobs' = jobs
            /\ Commit(World, "go-button")
    /\ UNCHANGED <<phase, listening, dialogs, inputs, reveals>>

\* processedCount that counts every entry
processedCountOfAll(result) == Len(result.entries)

processedCount(result) ==
    Len(SelectSeq(result.entries, LAMBDA e : e.processed = "Yes"))

\* the catch block of startProcessing
processingFailed(w, error) ==
    setStatusMessage(addLog(w, "ERROR", "Processing failed: " \o error),
                     "Error: " \o error)

\* the try block of startProcessing after the await resolved with result;
\* result.entries.filter throws when result has no entries
processingResolved(w, result) ==
    LET stored == setProcessingResult(w, result)
    IN  IF "entries" \notin DOMAIN result
        THEN processingFailed(stored, "TypeError")
        ELSE LET n == ToString(Len(result.entries))
                 p == ToString(processedCount(result))
                 logged == addLog(stored, "INFO",
                             "Processing complete. Found " \o n \o " files, "
                             \o p \o " processed.")
             IN  setStatusMessage(logged,
                   "Processed " \o p \o " of " \o n \o " files.\n\n"
                   \o "<strong>Staging Folder:</strong> "
                   \o result.staging_path \o "\n"
                   \o "<strong>LLM Output Folder:</strong> "
                   \o result.llm_output_path \o "\n"
                   \o "<strong>Report File:</strong> " \o result.report_path)

\* startProcessing whose setProcessing(false) ends the try block instead of
\* standing in a finally block
JobSettlesWithoutFinally(i, outcome) ==
    /\ i \in 1..Len(jobs)
    /\ jobs' = Remove(jobs, i)
    /\ ClockRead
    /\ LET resolved == processingResolved(World, outcome.result)
       IN  Commit(IF ~outcome.ok THEN processingFailed(World, outcome.error)
                  ELSE IF "entries" \notin DOMAIN outcome.result THEN resolved
                  ELSE setProcessing(resolved, FALSE),
                  "startProcessing")
    /\ UNCHANGED <<phase, listening, dialogs, inputs, reveals>>

\* startProcessing after its await: try, catch, finally
JobSettles(i, outcome) ==
    /\ i \in 1..Len(jobs)
    /\ jobs' = Remove(jobs, i)
    /\ ClockRead
    /\ LET settled == IF outcome.ok THEN processingResolved(World, outcome.result)
                      ELSE processingFailed(World, outcome.error)
       IN  Commit(setProcessing(settled, FALSE), "startProcessing")
    /\ UNCHANGED <<phase, listening, dialogs, inputs, reveals>>

\* click on #open-staging-button, #open-folder-button or #open-report-button
RevealClick(kind) ==
    /\ dom.mounted /\ dom.resultActionsDisplay # "none"
    /\ IF appState.processingResult # NullResult
       THEN /\ Len(reveals) < MaxReveals
            /\ reveals' = Append(reveals, kind)
       ELSE reveals' = reveals
    /\ lastOp' = [handler |-> "open-" \o kind, calls |-> <<>>, delivered |-> <<>>,
                  changed |-> FALSE]
    /\ UNCHANGED <<appState, logPanel, dom, now, phase, listening, dialogs, inputs, jobs>>

\* the open handlers after open_folder / open_file settled
RevealSettles(i, ok) ==
    /\ i \in 1..Len(reveals)
    /\ reveals' = Remove(reveals, i)
    /\ ClockReadIf(~ok)
    /\ Commit(IF ok THEN World
              ELSE addLog(World, "ERROR",
                     "Failed to open "
                     \o (IF reveals[i] = "report" THEN "report" ELSE "folder")
                     \o ": " \o "not found"),
              "open-" \o reveals[i])
    /\ UNCHANGED <<phase, listening, dialogs, inputs, jobs>>

-----------------------------------------------------------------------------
(* The log pipeline: the shell with its listeners registered, the backend *)
(* streaming log entries, the user filtering and clearing the panel,      *)
(* dropping a path and starting over                                      *)

Next ==
    \/ InitAvailable
    \/ InitUnavailable
    \/ QuitClick
    \/ ListenSettles("log", TRUE)
    \/ DragDropSettles(TRUE)
    \/ \E payload \in LogPayloads : LogEntryEvent(payload)
    \/ ClearLogsClick
    \/ \E value \in LogLevelOptions : LogLevelChange(value)
    \/ inputs = <<>> /\ NativeDropEvent(<<"x", "y">>)
    \/ \E i \in 1..Len(inputs) : InputSettles(i, TRUE)
    \/ StartOverClick
    \/ ClearButtonClick

Spec == Init /\ [][Next]_vars

-----------------------------------------------------------------------------
(* The store on its own: new AppState(), callers that subscribe listeners, *)
(* call the functions subscribe returned and call the nine mutation methods *)

InitStore ==
    /\ appState = InitialAppState
    /\ logPanel = [lastRenderedCount |-> 0, lastLogLevel |-> ""]
    /\ dom = NoDom
    /\ now = 0
    /\ phase = "no shell"
    /\ Quiet

\* the arguments the callers pass: for every setter the value the field
\* starts with and another one
PathArguments == {Null, "/x"}
ResultArguments == {NullResult, GoodResult}
LevelArguments == {"WARNING", "ERROR"}
ProgressArguments ==
    { [current |-> 0, total |-> 0, task_category |-> ""],
      [current |-> 1, total |-> 2, task_category |-> "convert"] }
MessageArguments == {"", "m"}
LogArguments == { [level |-> "INFO", message |-> "a"] }

\* the mutation methods that would have to be called to get from the
\* initial fields to those of a
Changed(a) ==
    {name \in {"selectedPath", "isProcessing", "logs", "processingResult",
               "selectedLogLevel", "progressCurrent", "statusMessage"} :
        a[name] # InitialAppState[name]}

\* a call of the store from outside any notification
StoreCall(w, name) ==
    /\ Cardinality(Changed(w.appState)) <= MaxChanged
    /\ Commit(w, name)
    /\ UNCHANGED <<phase, listening, dialogs, inputs, jobs, reveals>>

CallSubscribe(listener) ==
    /\ StoreCall(subscribed(World, listener), "subscribe")
    /\ now' = now

CallUnsubscribe(listener) ==
    /\ \E k \in 1..Len(appState.listeners) : appState.listeners[k] = listener
    /\ StoreCall(unsubscribed(World, listener), "unsubscribe")
    /\ now' = now

CallSetSelectedPath(path) ==
    /\ StoreCall(setSelectedPath(World, path), "setSelectedPath")
    /\ now' = now

CallSetProcessing(isProcessing) ==
    /\ StoreCall(setProcessing(World, isProcessing), "setProcessing")
    /\ now' = now

CallSetProcessingResult(result) ==
    /\ StoreCall(setProcessingResult(World, result), "setProcessingResult")
    /\ now' = now

CallSetSelectedLogLevel(level) ==
    /\ StoreCall(setSelectedLogLevel(World, level), "setSelectedLogLevel")
    /\ now' = now

CallUpdateProgress(p) ==
    /\ StoreCall(updateProgress(World, p.current, p.total, p.task_category),
                 "updateProgress")
    /\ now' = now

CallSetStatusMessage(message) ==
    /\ StoreCall(setStatusMessage(World, message), "setStatusMessage")
    /\ now' = now

\* the calls follow one another within one tick of the clock
CallAddLog(payload) ==
    /\ now' = now
    /\ StoreCall(addLog(World, payload.level, payload.message), "addLog")

CallClearLogs ==
    /\ StoreCall(clearLogs(World), "clearLogs")
    /\ now' = now

CallReset ==
    /\ StoreCall(reset(World), "reset")
    /\ now' = now

NextStore ==
    \/ \E listener \in Subscribers : CallSubscribe(listener)
    \/ \E listener \in Subscribers : CallUnsubscribe(listener)
    \/ \E path \in PathArguments : CallSetSelectedPath(path)
    \/ \E isProcessing \in BOOLEAN : CallSetProcessing(isProcessing)
    \/ \E result \in ResultArguments : CallSetProcessingResult(result)
    \/ \E level \in LevelArguments : CallSetSelectedLogLevel(level)
    \/ \E p \in ProgressArguments : CallUpdateProgress(p)
    \/ \E message \in MessageArguments : CallSetStatusMessage(message)
    \/ \E payload \in LogArguments : CallAddLog(payload)
    \/ CallClearLogs
    \/ CallReset

SpecStore == InitStore /\ [][NextStore]_vars

-----------------------------------------------------------------------------
(* Jobs: the user drops a path, starts the job, starts over, clears the    *)
(* path and the logs and changes the threshold while the backend reports    *)
(* progress and settles the calls awaited.  The clock does not tick, and a  *)
(* handler that logs runs only while the log keeps room for the entry each  *)
(* job awaited will log when it settles.                                    *)

Room(n) == Len(appState.logs) + Len(jobs) + n <= MaxLogs

DroppedFolder ==
    [files |-> <<[NoFile EXCEPT !.path = "x", !.name = "x"]>>, items |-> <<>>]

NextJob ==
    \/ InitAvailable
    \/ ListenSettles("progress", TRUE)
    \/ \E payload \in ProgressPayloads : ProgressUpdateEvent(payload)
    \/ Room(1) /\ inputs = <<>> /\ DropEvent(DroppedFolder) /\ now' = now
    \/ \E i \in 1..Len(inputs) : Room(1) /\ InputSettles(i, TRUE) /\ now' = now
    \/ Room(2) /\ GoClick /\ now' = now
    \/ \E i \in 1..Len(jobs), outcome \in JobOutcomes :
           JobSettles(i, outcome) /\ now' = now
    \/ StartOverClick
    \/ ClearButtonClick
    \/ ClearLogsClick
    \/ LogLevelChange("INFO")

SpecJob == Init /\ [][NextJob]_vars

\* an awaited start_processing call settles
JobCallSettles ==
    \E i \in 1..Len(jobs), outcome \in JobOutcomes :
        JobSettles(i, outcome) /\ now' = now

\* The backend settles every call it was given. This is weak fairness of
\* JobCallSettles with ENABLED <<JobCallSettles>>_vars written as jobs # <<>>:
\* a call that is awaited can settle (Room keeps the place in the log that a
\* settlement needs), so WF_vars(JobCallSettles) implies this condition and
\* what holds under it holds under WF_vars(JobCallSettles).
SpecJobFair ==
    SpecJob /\ ([]<>(jobs = <<>>) \/ []<><<JobCallSettles>>_vars)

-----------------------------------------------------------------------------
(* Drops: the drop zone and the native listener, up to the normalized path *)

\* drops delivered both ways: each payload with and without a usable path
Gestures ==
    { [paths |-> paths, e |-> e] :
        paths \in NativeDrops,
        e \in { [files |-> <<[NoFile EXCEPT !.path = "y", !.name = "y"]>>,
                 items |-> <<>>],
                [files |-> <<>>, items |-> <<>>] } }

NextDrop ==
    \/ InitAvailable
    \/ \E ok \in BOOLEAN : DragDropSettles(ok)
    \/ \E e \in DropEvents : DropEvent(e) /\ now' = now
    \/ \E dropEvent \in NativePayloads :
           NativeDropEvent(droppedPaths(dropEvent)) /\ now' = now
    \/ \E g \in Gestures : DropGesture(g.paths, g.e) /\ now' = now
    \/ \E i \in 1..Len(inputs), ok \in BOOLEAN : InputSettles(i, ok) /\ now' = now
    \/ ClearButtonClick
    \/ ClearLogsClick
    \/ StartOverClick

SpecDrop == Init /\ [][NextDrop]_vars

-----------------------------------------------------------------------------
(* Dialogs: the two browse buttons, up to the normalized path *)

NextBrowse ==
    \/ InitAvailable
    \/ \E kind \in {"directory", "file"} : BrowseClick(kind)
    \/ \E i \in 1..Len(dialogs), outcome \in DialogOutcomes :
           DialogSettles(i, outcome) /\ now' = now
    \/ \E i \in 1..Len(inputs) : InputSettles(i, TRUE) /\ now' = now
    \/ ClearButtonClick
    \/ ClearLogsClick

SpecBrowse == Init /\ [][NextBrowse]_vars

-----------------------------------------------------------------------------
(* Failures: every awaited call of the shell settling either way *)

NextErrors ==
    \/ InitAvailable
    \/ \E which \in {"log", "progress"}, ok \in BOOLEAN : ListenSettles(which, ok)
    \/ \E ok \in BOOLEAN : DragDropSettles(ok) /\ now' = now
    \/ dialogs = <<>> /\ inputs = <<>> /\ BrowseClick("directory")
    \/ \E i \in 1..Len(dialogs) :
           \E outcome \in {[type |-> "string", value |-> "x"],
                           [type |-> "throw", error |-> "dialog failed"]} :
               DialogSettles(i, outcome) /\ now' = now
    \/ \E i \in 1..Len(inputs), ok \in BOOLEAN : InputSettles(i, ok) /\ now' = now
    \/ jobs = <<>> /\ GoClick /\ now' = now
    \/ \E i \in 1..Len(jobs), outcome \in JobOutcomes :
           JobSettles(i, outcome) /\ now' = now
    \/ \E kind \in {"folder", "report"} : reveals = <<>> /\ RevealClick(kind)
    \/ \E i \in 1..Len(reveals), ok \in BOOLEAN : RevealSettles(i, ok) /\ now' = now
    \/ ClearLogsClick

SpecErrors == Init /\ [][NextErrors]_vars

-----------------------------------------------------------------------------
(* ProgressPanel on its own: render(), then calls of update *)

\* the arguments of a call of update
UpdateArguments ==
    [current : 0..MaxProgress, total : 0..MaxProgress,
     taskCategory : {"", "convert"}, isProcessing : BOOLEAN,
     statusMessage : {"", "Processing..."}]

InitProgress ==
    /\ appState = InitialAppState
    /\ logPanel = [lastRenderedCount |-> 0, lastLogLevel |-> ""]
    /\ dom = RenderedDom
    /\ now = 0
    /\ phase = "ready"
    /\ Quiet

\* update(current, total, taskCategory, isProcessing, statusMessage) called
ProgressUpdateCall(args) ==
    /\ dom' = ProgressPanel_update(World, args.current, args.total, args.taskCategory,
                                   args.isProcessing, args.statusMessage).dom
    /\ lastOp' = [handler |-> "ProgressPanel.update", calls |-> <<>>,
                  delivered |-> <<>>, changed |-> FALSE]
    /\ UNCHANGED <<appState, logPanel, now, phase, listening, dialogs, inputs, jobs,
                   reveals>>

NextProgress == \E args \in UpdateArguments : ProgressUpdateCall(args)

SpecProgress == InitProgress /\ [][NextProgress]_vars

-----------------------------------------------------------------------------
(* The File Conversion task view, in its two versions: the closure of      *)
(* renderFileConversionView.  Of the variables, appState holds allLogs and *)
(* showDebugLogs, dom the Start button, the input field and the log panel, *)
(* listening.log the state of logListenerPromise, inputs the start         *)
(* handlers suspended at `await setupLogListener()` with the value each    *)
(* read, and jobs the start_file_conversion calls awaited.                 *)

ViewVersions == {"first version", "second version"}

\* what the input field can hold
FieldValues == {"", " ", "x"}

\* String.prototype.trim on the field values
trim(value) == IF value = " " THEN "" ELSE value

\* log-entry payloads the backend pushes to the view
ViewLogPayloads ==
    { [level |-> "INFO", message |-> "a"],
      [level |-> "DEBUG", message |-> "d"] }

RenderedView ==
    [mounted |-> TRUE, startDisabled |-> FALSE, inputValue |-> "", logPanel |-> <<>>]

InitConversion ==
    /\ phase \in ViewVersions
    /\ appState = [allLogs |-> <<>>, showDebugLogs |-> FALSE]
    /\ logPanel = [lastRenderedCount |-> 0, lastLogLevel |-> ""]
    /\ dom = RenderedView
    /\ now = 0
    /\ listening = [log |-> IF phase = "second version" THEN "pending" ELSE "off",
                    progress |-> "off", dragDrop |-> "off"]
    /\ dialogs = <<>> /\ inputs = <<>> /\ jobs = <<>> /\ reveals = <<>>
    /\ lastOp = [handler |-> "renderFileConversionView", calls |-> <<>>,
                 delivered |-> <<>>, changed |-> FALSE]

View == [appState |-> appState, dom |-> dom]

\* the line of the panel for an entry
\* a timestamp of the backend is a UTC instant, shown as local time; any other
\* text is shown as it is
formatTimestamp(timestamp) ==
    IF timestamp.utc THEN toLocaleTimeString(toISOString(timestamp.text))
    ELSE timestamp.text

logLine(log) ==
    [time |-> formatTimestamp(log.timestamp),
     levelPrefix |-> CASE log.level = "ERROR" -> "error"
                       [] log.level = "WARNING" -> "warning"
                       [] log.level = "DEBUG" -> "debug"
                       [] OTHER -> "info",
     message |-> log.message]

updateLogDisplay(v) ==
    LET logsToShow ==
            IF v.appState.showDebugLogs THEN v.appState.allLogs
            ELSE SelectSeq(v.appState.allLogs,
                           LAMBDA log : log.level \in {"INFO", "WARNING", "ERROR"})
    IN  [v EXCEPT !.dom.logPanel = [k \in 1..Len(logsToShow) |-> logLine(logsToShow[k])]]

\* appendLog of the first version: a line added to the text of the panel
appendLogText(v, message) ==
    [v EXCEPT !.dom.logPanel =
        Append(@, [time |-> toLocaleTimeString(toISOString(now)),
                   levelPrefix |-> "", message |-> message])]

\* appendLog of the second version
appendLog(v, message, level) ==
    updateLogDisplay([v EXCEPT !.appState.allLogs =
        Append(@, [level |-> level, message |-> message,
                   timestamp |-> [utc |-> FALSE,
                                  text |-> toLocaleTimeString(toISOString(now))]])])

\* what a handler of the view leaves behind
ViewCommit(v, name) ==
    /\ Len(v.appState.allLogs) <= MaxLogs
    /\ Len(v.dom.logPanel) <= MaxLogs
    /\ appState' = v.appState
    /\ dom' = v.dom
    /\ lastOp' = [handler |-> name, calls |-> <<>>, delivered |-> <<>>,
                  changed |-> v.appState # appState]
    /\ UNCHANGED <<logPanel, now, phase, dialogs, reveals>>

\* the user edits the input field
InputTyped(value) ==
    /\ phase \in ViewVersions
    /\ value # dom.inputValue
    /\ ViewCommit([View EXCEPT !.dom.inputValue = value], "input-path")
    /\ UNCHANGED <<listening, inputs, jobs>>

\* the start handler from `startButton.disabled = true` to its await of
\* start_file_conversion, run for each of the values read
started(v, values) ==
    IF phase = "first version"
    THEN appendLogText([v EXCEPT !.dom.startDisabled = TRUE],
                       "Starting conversion for: " \o values[1])
    ELSE [v EXCEPT !.dom.startDisabled = TRUE]

\* click on the Start button: a disabled button receives no click
StartClick ==
    /\ phase \in ViewVersions
    /\ ~dom.startDisabled
    /\ LET value == trim(dom.inputValue)
           prompt == "Please provide an input path before starting conversion."
       IN  IF value = ""
           THEN /\ ViewCommit(IF phase = "first version"
                              THEN appendLogText(View, prompt)
                              ELSE appendLog(View, prompt, "INFO"),
                              "start-conversion")
                /\ UNCHANGED <<inputs, jobs>>
           ELSE IF phase = "second version" /\ listening.log = "pending"
           THEN /\ Len(inputs) < MaxInputs
                /\ inputs' = Append(inputs, value)
                /\ ViewCommit(View, "start-conversion")
                /\ jobs' = jobs
           ELSE /\ Len(jobs) < MaxJobs
                /\ jobs' = Append(jobs, value)
                /\ ViewCommit(started(View, <<value>>), "start-conversion")
                /\ inputs' = inputs
    /\ UNCHANGED listening

\* logListenerPromise settles: its then / catch run, and every start handler
\* that awaits it goes on, in the order of the clicks, before any other event
LogListenerSettles(ok) ==
    /\ phase = "second version"
    /\ listening.log = "pending"
    /\ listening' = [listening EXCEPT !.log = IF ok THEN "on" ELSE "failed"]
    /\ Len(jobs) + Len(inputs) <= MaxJobs
    /\ jobs' = jobs \o inputs
    /\ inputs' = <<>>
    /\ LET settled == IF ok THEN View
                      ELSE appendLog(View, "Failed to set up log listener: "
                                           \o "listen failed", "ERROR")
       IN  ViewCommit(IF inputs = <<>> THEN settled ELSE started(settled, inputs),
                      "setupLogListener")

\* the awaited start_file_conversion settles: try, catch, finally
ConversionSettles(i, ok) ==
    /\ phase \in ViewVersions
    /\ i \in 1..Len(jobs)
    /\ jobs' = Remove(jobs, i)
    /\ LET settled ==
               IF phase = "first version"
               THEN appendLogText(View, IF ok THEN "Conversion request completed."
                                        ELSE "Conversion failed: " \o "engine failed")
               ELSE IF ok THEN View
                    ELSE appendLog(View, "Conversion failed: " \o "engine failed",
                                   "ERROR")
       IN  ViewCommit([settled EXCEPT !.dom.startDisabled = FALSE],
                      "start_file_conversion")
    /\ UNCHANGED <<listening, inputs>>

\* the log-entry listener of the view
ViewLogEntryEvent(payload) ==
    /\ phase = "second version"
    /\ listening.log = "on"
    /\ ViewCommit(updateLogDisplay([View EXCEPT !.appState.allLogs =
                      Append(@, [level |-> payload.level, message |-> payload.message,
                                 timestamp |-> [utc |-> TRUE, text |-> now]])]),
                  "log-entry")
    /\ UNCHANGED <<listening, inputs, jobs>>

\* click on the Clear button of the view
ClearLogClick ==
    /\ phase \in ViewVersions
    /\ dom.logPanel # <<>> \/ appState.allLogs # <<>>
    /\ ViewCommit([View EXCEPT !.dom.logPanel = <<>>, !.appState.allLogs = <<>>],
                  "clear-log")
    /\ UNCHANGED <<listening, inputs, jobs>>

\* change of the debug-logs checkbox
DebugLogsChange ==
    /\ phase = "second version"
    /\ ViewCommit(updateLogDisplay([View EXCEPT !.appState.showDebugLogs = ~@]),
                  "debug-logs")
    /\ UNCHANGED <<listening, inputs, jobs>>

NextConversion ==
    \/ \E value \in FieldValues : InputTyped(value)
    \/ StartClick
    \/ \E ok \in BOOLEAN : LogListenerSettles(ok)
    \/ \E i \in 1..Len(jobs), ok \in BOOLEAN : ConversionSettles(i, ok)
    \/ \E payload \in ViewLogPayloads : ViewLogEntryEvent(payload)
    \/ ClearLogClick
    \/ DebugLogsChange

SpecConversion == InitConversion /\ [][NextConversion]_vars

-----------------------------------------------------------------------------
(* What the panel shows *)

\* the log elements among the panel's children, in document order
Entries(children) == SelectSeq(children, LAMBDA n : n.kind = "log-entry")

\* what an element displays, whichever element it is
Shown(n) == [className |-> n.className, timestamp |-> n.timestamp,
             level |-> n.level, message |-> n.message]

Display(children) ==
    LET entries == Entries(children)
    IN  [i \in 1..Len(entries) |-> Shown(entries[i])]

\* the reference renderer: filter the whole log, render every admitted entry
ReferenceDisplay(logs, threshold) ==
    LET admitted == filterLogsByLevel(logs, threshold)
    IN  [i \in 1..Len(admitted) |-> Shown(createLogElement(admitted[i], <<0, 0>>))]

Messages(seq) == [i \in 1..Len(seq) |-> seq[i].message]

IsPrefix(s, t) == Len(s) <= Len(t) /\ SubSeq(t, 1, Len(s)) = s

Count(seq, x) == Cardinality({i \in 1..Len(seq) : seq[i] = x})

Clears(op) == Count(op.calls, "clearLogs") + Count(op.calls, "reset") > 0

-----------------------------------------------------------------------------
(* C1: after every handler (store mutations, each followed by the         *)
(* subscriber's LogPanel.update) the entries the panel displays are the     *)
(* stored logs admitted by the current threshold, in store order: the       *)
(* incremental renderer agrees with the reference renderer.                 *)
C1_ViewMatchesStore ==
    dom.mounted =>
        Display(dom.logsPanel)
            = ReferenceDisplay(appState.logs, appState.selectedLogLevel)

\* a streamed entry was appended under a threshold the user chose, with
\* some stored entries shown and some hidden
C1_Witness ==
    /\ lastOp.handler = "log-entry"
    /\ appState.selectedLogLevel = "ERROR"
    /\ Len(appState.logs) = 3
    /\ Len(Entries(dom.logsPanel)) = 2

(* C2: every addLog call lengthens logs by exactly one, puts the new entry *)
(* last and leaves the entries stored before it as they were.              *)
C2_AddLogAppends ==
    [][ /\ ~Clears(lastOp')
          => /\ Len(appState'.logs)
                  = Len(appState.logs) + Count(lastOp'.calls, "addLog")
             /\ IsPrefix(appState.logs, appState'.logs)
        /\ \A payload \in LogPayloads :
             (lastOp'.handler = "log-entry" /\ LogEntryEvent(payload))
               => LET last == appState'.logs[Len(appState'.logs)]
                  IN  /\ last.level = payload.level
                      /\ last.message = payload.message
                      /\ last.timestamp = toISOString(now') ]_vars

\* an addLog call on a store that already held two entries
C2_Witness ==
    /\ Count(lastOp.calls, "addLog") = 1
    /\ Len(appState.logs) = 3

\* the logs of the store after each of its methods and after the view
\* updates, called in the present state
LogsAfterKeeping ==
    {setSelectedPath(World, path).appState.logs : path \in PathArguments}
    \cup {setProcessing(World, isProcessing).appState.logs : isProcessing \in BOOLEAN}
    \cup {setProcessingResult(World, result).appState.logs : result \in ResultArguments}
    \cup {setSelectedLogLevel(World, level).appState.logs : level \in LogLevelOptions}
    \cup {updateProgress(World, p.current, p.total, p.task_category).appState.logs :
            p \in ProgressArguments}
    \cup {setStatusMessage(World, message).appState.logs : message \in MessageArguments}
    \cup {subscribed(World, listener).appState.logs : listener \in Subscribers}
    \cup {unsubscribed(World, listener).appState.logs : listener \in Subscribers}
    \cup {updateComponents(updateUI(World)).appState.logs}

(* C3: across any step logs keeps its entries: the old logs is a prefix of *)
(* the new, except across clearLogs or reset, which leave logs empty; and   *)
(* in every state, of the store's methods only addLog, clearLogs and reset  *)
(* give another logs, addLog one that the present logs is a prefix of, and  *)
(* the view updates give no other.                                          *)
C3_LogsOnlyGrowOrClear ==
    /\ [][ IF Clears(lastOp')
           THEN appState'.logs = <<>>
           ELSE IsPrefix(appState.logs, appState'.logs) ]_vars
    /\ [] ( /\ LogsAfterKeeping = {appState.logs}
            /\ \A payload \in LogPayloads :
                 LET after == addLogAt(World, payload.level, payload.message, now)
                 IN  /\ IsPrefix(appState.logs, after.appState.logs)
                     /\ Len(after.appState.logs) = Len(appState.logs) + 1
            /\ clearLogs(World).appState.logs = <<>>
            /\ reset(World).appState.logs = <<>> )

\* Start Over emptied the store
C3_Witness ==
    /\ lastOp.handler = "start-over-button"
    /\ appState.logs = <<>>

(* C4: after clearLogs and the update that follows it the panel holds the  *)
(* placeholder alone and lastRenderedCount is 0.                            *)
C4_ClearShowsPlaceholder ==
    lastOp.handler = "clear-logs-button"
        => /\ dom.logsPanel = <<EmptyMessage>>
           /\ logPanel.lastRenderedCount = 0

C4_Witness ==
    /\ lastOp.handler = "clear-logs-button"
    /\ dom.logsPanel = <<EmptyMessage>>
    /\ appState.logs = <<>>

(* C5: switching the threshold from T1 to another and back, with or        *)
(* without an entry arriving in between, leaves the panel displaying what   *)
(* it displays when T1 stays selected throughout.                           *)
C5_FilterRoundTrip ==
    dom.mounted =>
        \A T2 \in LogLevelOptions \ {appState.selectedLogLevel} :
            LET T1 == appState.selectedLogLevel
                away == setSelectedLogLevel(World, T2)
                back == setSelectedLogLevel(away, T1)
            IN  /\ Display(back.dom.logsPanel) = Display(dom.logsPanel)
                /\ back.appState.logs = appState.logs
                /\ \A payload \in LogPayloads :
                     LET arrived == addLogAt(away, payload.level, payload.message, now)
                         returned == setSelectedLogLevel(arrived, T1)
                         stayed == addLogAt(World, payload.level, payload.message, now)
                     IN  Display(returned.dom.logsPanel) = Display(stayed.dom.logsPanel)

\* the user is back at the threshold the session started with, after
\* entries arrived, one of them hidden by it
C5_Witness ==
    /\ lastOp.handler = "log-level-select"
    /\ appState.selectedLogLevel = "WARNING"
    /\ Len(appState.logs) = 3
    /\ Len(Entries(dom.logsPanel)) = 2

(* C6: a step that appends N entries, all admitted by the unchanged        *)
(* threshold, adds exactly N elements at the end of the panel, and every    *)
(* log element of the panel before the step is the same element after it.   *)
C6_AppendKeepsElements ==
    [][ ( /\ dom.mounted
          /\ appState'.selectedLogLevel = appState.selectedLogLevel
          /\ ~Clears(lastOp')
          /\ IsPrefix(appState.logs, appState'.logs)
          /\ \A i \in (Len(appState.logs) + 1)..Len(appState'.logs) :
                 shouldShowLog(appState'.logs[i], appState.selectedLogLevel) )
        => LET old == Entries(dom.logsPanel)
               new == Entries(dom'.logsPanel)
               N == Len(appState'.logs) - Len(appState.logs)
           IN  /\ Len(new) = Len(old) + N
               /\ SubSeq(new, 1, Len(old)) = old
               /\ \A i \in (Len(old) + 1)..Len(new) :
                      /\ new[i].id \notin {old[j].id : j \in 1..Len(old)}
                      /\ Shown(new[i])
                           = Shown(createLogElement(
                                 appState'.logs[Len(appState.logs) + i - Len(old)],
                                 <<0, 0>>)) ]_vars

\* an admitted entry was appended to a panel that already held two elements
C6_Witness ==
    /\ lastOp.handler = "log-entry"
    /\ Len(Entries(dom.logsPanel)) = 3
    /\ Entries(dom.logsPanel)[3].id[2] = 3

\* the ranks the admission rule is stated with
SeverityRank(level) ==
    CASE level = "ERROR" -> 0
      [] level = "WARNING" -> 1
      [] level = "INFO" -> 2

(* C7: an entry is displayed under threshold T iff its rank is at most T's, *)
(* with ERROR 0, WARNING 1, INFO 2.                                         *)
C7_AdmissionRule ==
    dom.mounted =>
        Messages(Entries(dom.logsPanel))
            = Messages(SelectSeq(appState.logs,
                  LAMBDA e : SeverityRank(e.level)
                                 <= SeverityRank(appState.selectedLogLevel)))

\* [INFO a, WARNING b, ERROR c], shown as [b, c] under WARNING, after the
\* threshold is lowered to INFO
C7_Witness ==
    /\ lastOp.handler = "log-level-select"
    /\ appState.selectedLogLevel = "INFO"
    /\ Messages(appState.logs) = <<"a", "b", "c">>
    /\ Messages(Entries(dom.logsPanel)) = <<"a", "b", "c">>

-----------------------------------------------------------------------------
(* What a store call did: lastOp.delivered read as a sequence of events *)

Least(S) == CHOOSE j \in S : \A k \in S : j <= k

Greatest(S) == CHOOSE j \in S : \A k \in S : j >= k

\* where notifications start in T
NotifyAt(T) == {i \in 1..Len(T) : T[i].event = "notify"}

\* where the notification started at i ends, 0 if it does not
DoneOf(T, i) ==
    LET ends == {j \in (i + 1)..Len(T) :
                    T[j].event = "done" /\ T[j].depth = T[i].depth}
    IN  IF ends = {} THEN 0 ELSE Least(ends)

\* the listeners the notification started at i invoked, in the order of the calls
CallsOf(T, i) ==
    LET inside == SelectSeq(SubSeq(T, i + 1, DoneOf(T, i) - 1),
                     LAMBDA e : e.event = "call" /\ e.depth = T[i].depth)
    IN  [k \in 1..Len(inside) |-> inside[k].listener]

\* the notification started at i ended, having invoked the listeners that
\* were registered when it started, in registration order, each once
Delivered(T, i) == DoneOf(T, i) > 0 /\ CallsOf(T, i) = T[i].registered

\* where subscribe or a function returned by subscribe was called
ChangesAt(T) == {j \in 1..Len(T) : T[j].event \in {"subscribe", "unsubscribe"}}

\* mutation methods called from within a listener
NestedMutationsAt(T) ==
    {m \in 1..Len(T) : T[m].event = "mutation" /\ T[m].depth >= 1}

\* the store call the step made gave its update to a notification of the
\* listeners registered before the call: the first of them observed
\* `expected`, all were invoked once, in registration order, and the
\* notification ended as the last thing the call did
Notified(expected) ==
    LET T == lastOp'.delivered
    IN  /\ Len(T) >= 3
        /\ T[1].event = "mutation" /\ T[1].depth = 0
        /\ T[2] = [event |-> "notify", depth |-> 1, registered |-> appState.listeners]
        /\ CallsOf(T, 2) = appState.listeners
        /\ DoneOf(T, 2) = Len(T)
        /\ appState.listeners # <<>>
             => T[3].event = "call" /\ T[3].observed = expected

(* C8: every call of a mutation method applies its update and then, before *)
(* it returns, invokes every listener registered at the call once, in      *)
(* registration order, whether or not the update changed a field.          *)
C8_MutationNotifiesAll ==
    [][ LET h == lastOp'.handler
            old == Fields(appState)
        IN  /\ h = "setSelectedPath" =>
                 \A path \in PathArguments : CallSetSelectedPath(path)
                     => Notified([old EXCEPT !.selectedPath = path])
            /\ h = "setProcessing" =>
                 \A isProcessing \in BOOLEAN : CallSetProcessing(isProcessing)
                     => Notified([old EXCEPT !.isProcessing = isProcessing])
            /\ h = "setProcessingResult" =>
                 \A result \in ResultArguments : CallSetProcessingResult(result)
                     => Notified([old EXCEPT !.processingResult = result])
            /\ h = "setSelectedLogLevel" =>
                 \A level \in LevelArguments : CallSetSelectedLogLevel(level)
                     => Notified([old EXCEPT !.selectedLogLevel = level])
            /\ h = "updateProgress" =>
                 \A p \in ProgressArguments : CallUpdateProgress(p)
                     => Notified([old EXCEPT !.progressCurrent = p.current,
                                             !.progressTotal = p.total,
                                             !.currentTaskCategory = p.task_category])
            /\ h = "setStatusMessage" =>
                 \A message \in MessageArguments : CallSetStatusMessage(message)
                     => Notified([old EXCEPT !.statusMessage = message])
            /\ h = "addLog" =>
                 \A payload \in LogArguments : CallAddLog(payload)
                     => Notified([old EXCEPT !.logs = Append(@,
                                    [level |-> payload.level,
                                     message |-> payload.message,
                                     timestamp |-> toISOString(now')])])
            /\ h = "clearLogs" => Notified([old EXCEPT !.logs = <<>>])
            /\ h = "reset" => Notified(Fields(InitialAppState)) ]_vars

\* setStatusMessage was called with the message the store already had, and
\* the two registered listeners were invoked
C8_Witness ==
    /\ lastOp.handler = "setStatusMessage"
    /\ ~lastOp.changed
    /\ Len(lastOp.delivered) >= 2
    /\ lastOp.delivered[2].event = "notify"
    /\ lastOp.delivered[2].registered = <<"observer", "oneShot">>
    /\ CallsOf(lastOp.delivered, 2) = <<"observer", "oneShot">>

\* where f was last subscribed or unsubscribed before event n, 0 if nowhere
LastChange(T, f, n) ==
    LET changes == {j \in ChangesAt(T) : j < n /\ T[j].listener = f}
    IN  IF changes = {} THEN 0 ELSE Greatest(changes)

\* the array ls registers the listeners the changes made before event n
\* leave: none of f after f was unsubscribed, f after f was subscribed, and
\* as many of f as `base` had if f was neither
RegisteredAsChanged(T, ls, n, base) ==
    \A f \in Subscribers :
        LET j == LastChange(T, f, n)
        IN  IF j = 0 THEN Count(ls, f) = Count(base, f)
            ELSE IF T[j].event = "unsubscribe" THEN Count(ls, f) = 0
            ELSE Count(ls, f) >= 1

(* C9: when a listener subscribes or unsubscribes a listener while a       *)
(* notification is being delivered, every notification of the call still   *)
(* invokes the listeners registered when it started, each once; the change  *)
(* shows in the notifications started after it and in the listeners the     *)
(* call leaves registered.                                                  *)
C9_ChangesDuringNotification ==
    [][ LET T == lastOp'.delivered
        IN  (\E j \in ChangesAt(T) : T[j].depth >= 1)
            => /\ T[2].event = "notify" /\ T[2].registered = appState.listeners
               /\ \A i \in NotifyAt(T) :
                    /\ Delivered(T, i)
                    /\ RegisteredAsChanged(T, T[i].registered, i, appState.listeners)
               /\ RegisteredAsChanged(T, appState'.listeners, Len(T) + 1,
                                      appState.listeners) ]_vars

\* a listener unsubscribed itself, the notification still invoked the
\* listener registered after it, and that one subscribed a listener, which
\* the notification did not invoke
C9_Witness ==
    LET T == lastOp.delivered
    IN  /\ Len(T) >= 2
        /\ T[2].event = "notify"
        /\ T[2].registered = <<"oneShot", "recruiter">>
        /\ CallsOf(T, 2) = <<"oneShot", "recruiter">>
        /\ appState.listeners = <<"recruiter", "observer">>

\* the call event of the listener that called the mutation method at m
CallerOf(T, m) ==
    Greatest({c \in 1..(m - 1) : T[c].event = "call" /\ T[c].depth = T[m].depth})

\* the listeners registered before the call and not unsubscribed by it
RegisteredThroughout(T, ls) ==
    {f \in Subscribers :
        /\ Count(ls, f) > 0
        /\ \A j \in ChangesAt(T) : ~(T[j].event = "unsubscribe" /\ T[j].listener = f)}

(* C10: a mutation method called by a listener during a notification       *)
(* applies its update and delivers a whole notification of its own before   *)
(* anything else of the outer notification happens; the outer notification  *)
(* then goes on to the rest of its listeners; no notification skips a       *)
(* listener, and the last call of every listener registered throughout      *)
(* observes the fields the store is left with.                              *)
C10_ReentrantMutation ==
    [][ LET T == lastOp'.delivered
        IN  /\ \A m \in NestedMutationsAt(T) :
                 /\ m < Len(T)
                 /\ T[m + 1].event = "notify"
                 /\ T[m + 1].depth = T[m].depth + 1
                 /\ Delivered(T, m + 1)
                 /\ RegisteredAsChanged(T, T[m + 1].registered, m + 1,
                                        appState.listeners)
                 /\ \A j \in m..DoneOf(T, m + 1) : T[j].depth >= T[m].depth
                 /\ T[m + 1].registered # <<>>
                      => T[m + 2].observed # T[CallerOf(T, m)].observed
            /\ NestedMutationsAt(T) # {}
                 => /\ \A i \in NotifyAt(T) : Delivered(T, i)
                    /\ CallsOf(T, 2) = appState.listeners
                    /\ \A f \in RegisteredThroughout(T, appState.listeners) :
                         LET last == Greatest({c \in 1..Len(T) :
                                        T[c].event = "call" /\ T[c].listener = f})
                         IN  T[last].observed = Fields(appState') ]_vars

\* a listener's mutation led another listener to mutate, two notifications
\* deep, and the outermost notification went on to its next listener
C10_Witness ==
    LET T == lastOp.delivered
    IN  \E m \in NestedMutationsAt(T) :
            /\ T[m].depth = 2
            /\ \E c \in (m + 1)..Len(T) : T[c].event = "call" /\ T[c].depth = 1

-----------------------------------------------------------------------------
\* the fields as the store's declarations initialise them
Pristine(f) ==
    /\ f.selectedPath = Null
    /\ f.isProcessing = FALSE
    /\ f.logs = <<>>
    /\ f.processingResult = NullResult
    /\ f.selectedLogLevel = "WARNING"
    /\ f.progressCurrent = 0 /\ f.progressTotal = 0 /\ f.currentTaskCategory = ""
    /\ f.statusMessage = ""

\* the call events of T
CallEvents(T) == SelectSeq(T, LAMBDA e : e.event = "call")

(* C11: reset leaves every field at its initial value and invokes every    *)
(* subscriber once, after all the fields are reset: the subscriber          *)
(* observes the initial values and nothing in between.                      *)
C11_ResetRestoresAll ==
    lastOp.handler = "start-over-button"
        => /\ Pristine(appState)
           /\ lastOp.calls = <<"reset">>
           /\ Len(CallEvents(lastOp.delivered)) = Len(appState.listeners)
           /\ CallsOf(lastOp.delivered, 2) = appState.listeners
           /\ \A k \in 1..Len(lastOp.delivered) :
                lastOp.delivered[k].event = "call"
                    => Pristine(lastOp.delivered[k].observed)

\* Start Over while a job is awaited: the path, the logs and isProcessing
\* were set before it
C11_Witness ==
    /\ lastOp.handler = "start-over-button"
    /\ lastOp.changed
    /\ Len(jobs) = 1
    /\ Len(CallEvents(lastOp.delivered)) = 1
    /\ Pristine(appState)

-----------------------------------------------------------------------------
(* C12: choosing a log level changes selectedLogLevel and no other field   *)
(* of the store; the panel's update, at any level, leaves the stored logs  *)
(* as they are: filtering only decides what is shown.                       *)
C12_LevelChangeKeepsLogs ==
    /\ [][lastOp'.handler = "log-level-select"
            => /\ appState'.selectedLogLevel = dom'.logLevelSelect
               /\ appState' = [appState EXCEPT
                                 !.selectedLogLevel = appState'.selectedLogLevel]]_vars
    /\ [](\A level \in LogLevelOptions :
            /\ update(World, appState.logs, level).appState = appState
            /\ setSelectedLogLevel(World, level).appState
                 = [appState EXCEPT !.selectedLogLevel = level])

\* a level chosen that hides entries which stay stored
C12_Witness ==
    /\ lastOp.handler = "log-level-select"
    /\ Len(appState.logs) >= 2
    /\ filterLogsByLevel(appState.logs, appState.selectedLogLevel) = <<>>
    /\ dom.mounted

-----------------------------------------------------------------------------
(* C13: the start_processing call is issued only from a state with a       *)
(* selected path and isProcessing false, for that path; in any other state *)
(* startProcessing changes no field and notifies nobody, and the GO button *)
(* cannot be clicked.                                                       *)
C13_StartOnlyWhenReady ==
    /\ [][/\ Len(jobs') > Len(jobs)
                => /\ Truthy(appState.selectedPath) /\ ~appState.isProcessing
                   /\ jobs' = Append(jobs, appState.selectedPath)
                   /\ lastOp'.handler = "go-button"
          /\ ~Truthy(appState.selectedPath) \/ appState.isProcessing
                => startProcessing(World) = World]_vars
    /\ []((~Truthy(appState.selectedPath) \/ appState.isProcessing) /\ dom.mounted
            => dom.goDisabled)

\* a job started for the selected path; the store is now processing, which
\* is a state where a further start does nothing
C13_Witness ==
    /\ lastOp.handler = "go-button"
    /\ Len(jobs) = 1 /\ jobs[1] = appState.selectedPath
    /\ appState.isProcessing
    /\ dom.goDisabled

-----------------------------------------------------------------------------
\* the place of the first x in seq, 0 when there is none
Position(seq, x) ==
    IF \E k \in 1..Len(seq) : seq[k] = x
    THEN CHOOSE k \in 1..Len(seq) : seq[k] = x /\ \A j \in 1..(k - 1) : seq[j] # x
    ELSE 0

\* no subscriber was called, in the last operation, with isProcessing true
\* and a result in processingResult
NoStaleResultObserved ==
    \A k \in 1..Len(lastOp.delivered) :
        lastOp.delivered[k].event = "call"
            => ~(/\ lastOp.delivered[k].observed.isProcessing
                 /\ lastOp.delivered[k].observed.processingResult # NullResult)

\* a job start sets the result to null before it sets isProcessing
ClearsResultFirst ==
    [][lastOp'.handler = "go-button" /\ lastOp'.changed
         => /\ Position(lastOp'.calls, "setProcessingResult") > 0
            /\ Position(lastOp'.calls, "setProcessingResult")
                 < Position(lastOp'.calls, "setProcessing")]_vars

\* a result observed while isProcessing is true is the result of the job
\* started last: it is observed in no other operation, and not when a job
\* started before the last one settles
NoResultOfPreviousJob ==
    [][(\/ lastOp'.handler # "startProcessing"
        \/ \E i \in 1..(Len(jobs) - 1), outcome \in JobOutcomes :
               JobSettles(i, outcome) /\ now' = now)
          => NoStaleResultObserved']_vars

(* C14: a job start clears processingResult before it sets isProcessing,   *)
(* so no subscriber is ever called with isProcessing true while            *)
(* processingResult holds the result of a previous job.                     *)
C14_ResultClearedBeforeProcessing ==
    ClearsResultFirst /\ NoResultOfPreviousJob

\* a job settled with a result while a job started after it is awaited: the
\* subscriber was called with that result and isProcessing true
C14_Witness ==
    /\ lastOp.handler = "startProcessing"
    /\ Len(jobs) = 1
    /\ appState.processingResult = GoodResult
    /\ ~NoStaleResultObserved

-----------------------------------------------------------------------------
(* C15: when a job's call settles, by resolving, by rejecting or with a    *)
(* result whose handling throws, isProcessing is false once startProcessing *)
(* has finished; isProcessing is true only while a call is awaited, and a  *)
(* call that is awaited can settle (the log has room for its entry); so,    *)
(* the backend settling every call, a state with isProcessing true is       *)
(* always followed by one with isProcessing false.                          *)
C15_ProcessingEnds ==
    /\ [][lastOp'.handler = "startProcessing"
            => /\ ~appState'.isProcessing
               /\ lastOp'.calls[Len(lastOp'.calls)] = "setProcessing"]_vars
    /\ [](appState.isProcessing => jobs # <<>>)
    /\ [](jobs # <<>> => Len(appState.logs) < MaxLogs)
    /\ (appState.isProcessing ~> ~appState.isProcessing)

\* the call resolved with a result that has no entries: handling it threw
\* after the result was stored, and isProcessing is false
C15_Witness ==
    /\ lastOp.handler = "startProcessing"
    /\ appState.processingResult = MalformedResult
    /\ appState.statusMessage = "Error: TypeError"
    /\ ~appState.isProcessing

-----------------------------------------------------------------------------
(* C16: from the issue of a job's call until it settles isProcessing is    *)
(* true, whatever the user does meanwhile; isProcessing turns true only at *)
(* a job start and false only at a settlement.                              *)
C16_ProcessingUntilSettled ==
    [][/\ jobs' # <<>> => appState'.isProcessing
       /\ appState'.isProcessing /\ ~appState.isProcessing
            => lastOp'.handler = "go-button"
       /\ ~appState'.isProcessing /\ appState.isProcessing
            => lastOp'.handler = "startProcessing"]_vars

\* Start Over clicked while the call is awaited: the store is reset, the GO
\* button is back to its initial state and the call has not settled
C16_Witness ==
    /\ lastOp.handler = "start-over-button"
    /\ jobs # <<>>
    /\ ~appState.isProcessing
    /\ appState.selectedPath = Null

-----------------------------------------------------------------------------
\* the awaited call i resolves with the ten entries, seven processed
Succeeds(i) ==
    JobSettles(i, [ok |-> TRUE, result |-> GoodResult]) /\ now' = now

(* C17: when the call resolves with a result of 10 entries of which 7 are  *)
(* processed, processingResult is that result, statusMessage reports        *)
(* "Processed 7 of 10 files.", one INFO entry reporting the completion is   *)
(* appended to the logs, and isProcessing is false.                         *)
C17_SuccessOutcome ==
    [][lastOp'.handler = "startProcessing" /\ (\E i \in 1..Len(jobs) : Succeeds(i))
         => /\ appState'.processingResult = GoodResult
            /\ Len(GoodResult.entries) = 10
            /\ appState'.statusMessage
                 = "Processed 7 of 10 files.\n\n"
                   \o "<strong>Staging Folder:</strong> /stg\n"
                   \o "<strong>LLM Output Folder:</strong> /llm\n"
                   \o "<strong>Report File:</strong> /rep"
            /\ Len(appState'.logs) = Len(appState.logs) + 1
            /\ IsPrefix(appState.logs, appState'.logs)
            /\ appState'.logs[Len(appState'.logs)].level = "INFO"
            /\ appState'.logs[Len(appState'.logs)].message
                 = "Processing complete. Found 10 files, 7 processed."
            /\ ~appState'.isProcessing
            /\ appState'.selectedPath = appState.selectedPath]_vars

\* a job has succeeded and the interface shows its outcome
C17_Witness ==
    /\ lastOp.handler = "startProcessing"
    /\ appState.processingResult = GoodResult
    /\ appState.logs # <<>>
    /\ appState.logs[Len(appState.logs)].message
         = "Processing complete. Found 10 files, 7 processed."
    /\ ~appState.isProcessing
    /\ jobs = <<>>

-----------------------------------------------------------------------------
\* the awaited call i rejects
Rejects(i) ==
    JobSettles(i, [ok |-> FALSE, error |-> "engine failed"]) /\ now' = now

\* what a rejection does apart from processingResult: one ERROR entry, the
\* error as status, the path kept, isProcessing false
FailureReported ==
    /\ Len(appState'.logs) = Len(appState.logs) + 1
    /\ IsPrefix(appState.logs, appState'.logs)
    /\ appState'.logs[Len(appState'.logs)].level = "ERROR"
    /\ appState'.logs[Len(appState'.logs)].message
         = "Processing failed: engine failed"
    /\ appState'.statusMessage = "Error: engine failed"
    /\ appState'.selectedPath = appState.selectedPath
    /\ ~appState'.isProcessing

(* C18: when the call rejects, exactly one ERROR entry "Processing failed: *)
(* ..." is appended, statusMessage is set to an error message,              *)
(* processingResult is null as the job start left it, selectedPath is       *)
(* unchanged and isProcessing is false.                                     *)
C18_FailureOutcome ==
    [][lastOp'.handler = "startProcessing" /\ (\E i \in 1..Len(jobs) : Rejects(i))
         => /\ FailureReported
            /\ appState'.processingResult = NullResult]_vars

\* a call rejected after a call issued before Start Over had resolved: the
\* failure is reported beside the result of the other job
C18_Witness ==
    /\ lastOp.handler = "startProcessing"
    /\ appState.statusMessage = "Error: engine failed"
    /\ appState.processingResult = GoodResult
    /\ Truthy(appState.selectedPath)
    /\ ~appState.isProcessing

-----------------------------------------------------------------------------
\* the browser drop e offers no path: its first file, if any, has neither a
\* direct nor a relative path, and no file item has a direct path
NoUsablePath(e) ==
    /\ Len(e.files) > 0
         => e.files[1].path = "" /\ e.files[1].webkitRelativePath = ""
    /\ \A k \in 1..Len(e.items) :
         e.items[k].kind = "file" => e.items[k].file.path = ""

\* the entries the step appended to the logs
Appended == SubSeq(appState'.logs, Len(appState.logs) + 1, Len(appState'.logs))

(* C19: a browser drop from which no path can be extracted appends an      *)
(* ERROR entry to the logs, changes no other field of the store and         *)
(* issues no normalization call.                                            *)
C19_DropWithoutPath ==
    [][lastOp'.handler = "drop"
         /\ (\E e \in DropEvents : NoUsablePath(e) /\ DropEvent(e) /\ now' = now)
         => /\ inputs' = inputs
            /\ appState' = [appState EXCEPT !.logs = appState'.logs]
            /\ IsPrefix(appState.logs, appState'.logs)
            /\ Appended # <<>>
            /\ Appended[Len(Appended)].level = "ERROR"
            /\ Appended[Len(Appended)].message
                 = "No files found in drop event or could not extract path"
            /\ \A k \in 1..(Len(Appended) - 1) : Appended[k].level # "ERROR"]_vars

\* a file dropped that has a name and no path, and whose item has no path
\* either: the error is logged and nothing is selected or submitted
C19_Witness ==
    /\ lastOp.handler = "drop"
    /\ Len(appState.logs) = 2
    /\ appState.logs[2].level = "ERROR"
    /\ appState.logs[2].message
         = "No files found in drop event or could not extract path"
    /\ appState.selectedPath = Null
    /\ inputs = <<>>

-----------------------------------------------------------------------------
\* the candidate of a drop carrying the native path list paths and the
\* browser payload e, by the order of the strategies: the native list, the
\* first file's direct path, its relative path, the first file item with a
\* direct path; Null when none yields a path
FirstCandidate(paths, e) ==
    IF Len(paths) > 0 THEN paths[1]
    ELSE IF Len(e.files) > 0 /\ e.files[1].path # "" THEN e.files[1].path
    ELSE IF Len(e.files) > 0 /\ e.files[1].webkitRelativePath # ""
         THEN e.files[1].webkitRelativePath
    ELSE IF \E k \in 1..Len(e.items) :
                e.items[k].kind = "file" /\ e.items[k].file.path # ""
         THEN e.items[Least({k \in 1..Len(e.items) :
                  e.items[k].kind = "file" /\ e.items[k].file.path # ""})].file.path
    ELSE Null

\* the awaited normalization calls after candidate c was passed on
Submitted(calls, c) == IF c = Null THEN calls ELSE Append(calls, c)

NoPayload == [files |-> <<>>, items |-> <<>>]

\* a drop delivered to one listener passes on the first candidate of its
\* payload and no other
OneListenerFirstWins ==
    [][/\ lastOp'.handler = "drop"
            => \A e \in DropEvents :
                   DropEvent(e) /\ now' = now
                       => inputs' = Submitted(inputs, FirstCandidate(<<>>, e))
       /\ lastOp'.handler = "native-drop"
            => \A paths \in NativeDrops :
                   NativeDropEvent(paths) /\ now' = now
                       => inputs' = Submitted(inputs, FirstCandidate(paths, NoPayload))
      ]_vars

\* a drop carrying both payloads passes on the first candidate and no other
BothPayloadsFirstWins ==
    [][lastOp'.handler = "drop-gesture"
         => \A g \in Gestures :
                DropGesture(g.paths, g.e) /\ now' = now
                    => inputs' = Submitted(inputs, FirstCandidate(g.paths, g.e))]_vars

(* C20: for one drop the strategies are tried in the order native path     *)
(* list, file-list direct path, file-list relative path, item-list direct  *)
(* path, and at most one candidate is passed to handleUserInput, also when *)
(* the drop carries both a native and a browser payload.                    *)
C20_FirstSuccessWins ==
    OneListenerFirstWins /\ BothPayloadsFirstWins

\* a drop delivered to both listeners, each payload with a path: two
\* normalization calls are awaited
C20_Witness ==
    /\ lastOp.handler = "drop-gesture"
    /\ Len(inputs) = 2
    /\ inputs[1] # inputs[2]

-----------------------------------------------------------------------------
\* a browser drop whose first file has a relative path and no direct path
OnlyRelativePath(e) ==
    /\ Len(e.files) > 0
    /\ e.files[1].path = ""
    /\ e.files[1].webkitRelativePath # ""

\* the levels a warning is logged with
WarningLevels == {"WARNING", "WARN"}

(* C21: when the first dropped file has no direct path but a relative      *)
(* path, the relative path is passed to handleUserInput and a warning      *)
(* entry is appended to the logs for that drop.                            *)
C21_RelativePathWithWarning ==
    [][lastOp'.handler = "drop"
         => \A e \in DropEvents :
                OnlyRelativePath(e) /\ DropEvent(e) /\ now' = now
                    => /\ inputs' = Append(inputs, e.files[1].webkitRelativePath)
                       /\ \E k \in 1..Len(Appended) :
                              Appended[k].level \in WarningLevels]_vars

\* a file with only a relative path was dropped: its path is submitted and
\* the one entry of the logs is the INFO entry of the drop
C21_Witness ==
    /\ lastOp.handler = "drop"
    /\ inputs = <<"y">>
    /\ Len(appState.logs) = 1
    /\ appState.logs[1].level = "INFO"
    /\ appState.logs[1].message = "Processing dropped item: y"

-----------------------------------------------------------------------------
(* C22: a native drop with a non-empty path list passes its first path,    *)
(* and no other, to handleUserInput; a native drop with an empty or        *)
(* missing path list submits nothing, leaves selectedPath and every other  *)
(* field but the logs unchanged and appends one ERROR entry.               *)
C22_NativeDropFirstPath ==
    [][lastOp'.handler = "native-drop"
         => \A dropEvent \in NativePayloads :
                NativeDropEvent(droppedPaths(dropEvent)) /\ now' = now
                    => IF "paths" \in DOMAIN dropEvent /\ dropEvent.paths # <<>>
                       THEN /\ inputs' = Append(inputs, dropEvent.paths[1])
                            /\ appState'.selectedPath = appState.selectedPath
                       ELSE /\ inputs' = inputs
                            /\ appState' = [appState EXCEPT !.logs = appState'.logs]
                            /\ IsPrefix(appState.logs, appState'.logs)
                            /\ Len(Appended) = 1
                            /\ Appended[1].level = "ERROR"
                            /\ Appended[1].message = "No paths found in drop event"
      ]_vars

\* a native drop of two paths while a path is already selected: the first
\* of them is submitted, the selection is as it was
C22_Witness ==
    /\ lastOp.handler = "native-drop"
    /\ inputs = <<"x">>
    /\ Truthy(appState.selectedPath)
    /\ appState.logs[Len(appState.logs)].message = "Processing dropped item: x"

-----------------------------------------------------------------------------
\* what open() answered is a selection, and which
Selection(outcome) ==
    CASE outcome.type = "string" /\ outcome.value # "" -> outcome.value
      [] outcome.type = "array" /\ outcome.values # <<>> -> outcome.values[1]
      [] OTHER -> Null

(* C23: a dialog answering a string passes it to handleUserInput, one      *)
(* answering a non-empty list passes the first element; an empty list or   *)
(* a cancelled dialog (null) is no selection: no field of the store        *)
(* changes, no log entry is appended and nobody is notified.               *)
C23_DialogResults ==
    [][lastOp'.handler = "browse" /\ Len(dialogs') < Len(dialogs)
         => \A i \in 1..Len(dialogs), outcome \in DialogOutcomes :
                outcome.type # "throw" /\ DialogSettles(i, outcome) /\ now' = now
                    => IF Selection(outcome) # Null
                       THEN inputs' = Append(inputs, Selection(outcome))
                       ELSE /\ inputs' = inputs
                            /\ appState' = appState
                            /\ lastOp'.calls = <<>>
                            /\ lastOp'.delivered = <<>>
                            /\ dom' = dom /\ logPanel' = logPanel]_vars

\* a dialog answered a list of two paths: the first of the two is submitted
\* and nobody was notified
C23_Witness ==
    /\ lastOp.handler = "browse"
    /\ dialogs = <<>>
    /\ inputs = <<"y">>
    /\ lastOp.delivered = <<>>

-----------------------------------------------------------------------------
\* the i-th awaited normalization call resolves / rejects
Normalizes(i) == InputSettles(i, TRUE) /\ now' = now
InvalidPath(i) == InputSettles(i, FALSE) /\ now' = now

\* a resolved call selects the path the backend returned, which is not the
\* raw input, and logs one INFO entry naming it
NormalizedPathSelected ==
    [][lastOp'.handler = "handleUserInput"
         => \A i \in 1..Len(inputs) :
                Normalizes(i)
                    => /\ appState'.selectedPath = normalized(inputs[i])
                       /\ appState'.selectedPath # inputs[i]
                       /\ Len(Appended) = 1
                       /\ Appended[1].level = "INFO"
                       /\ Appended[1].message = "Selected: " \o normalized(inputs[i])]_vars

\* a rejected call changes no field but logs, to which it appends one entry
InvalidPathKeepsFields ==
    [][lastOp'.handler = "handleUserInput"
         => \A i \in 1..Len(inputs) :
                InvalidPath(i)
                    => /\ appState' = [appState EXCEPT !.logs = appState'.logs]
                       /\ IsPrefix(appState.logs, appState'.logs)
                       /\ Len(Appended) = 1
                       /\ Appended[1].message = "Invalid path: invalid path"
                       /\ phase' = phase]_vars

(* C24: when normalization succeeds, selectedPath becomes the normalized   *)
(* path (not the raw input) and an INFO entry is logged; when it fails     *)
(* with "invalid path", selectedPath and every other field but logs keep   *)
(* their values and the failure is recorded as exactly one warning-level   *)
(* log entry.                                                              *)
C24_HandleUserInput ==
    [][lastOp'.handler = "handleUserInput"
         => \A i \in 1..Len(inputs) :
                /\ Normalizes(i)
                     => /\ appState'.selectedPath = normalized(inputs[i])
                        /\ appState'.selectedPath # inputs[i]
                        /\ Len(Appended) = 1
                        /\ Appended[1].level = "INFO"
                /\ InvalidPath(i)
                     => /\ appState' = [appState EXCEPT !.logs = appState'.logs]
                        /\ Len(Appended) = 1
                        /\ Appended[1].level \in WarningLevels]_vars

\* a normalization call rejected while a path is selected: the path stays
\* and the last entry of the logs reports the invalid path
C24_Witness ==
    /\ lastOp.handler = "handleUserInput"
    /\ appState.selectedPath = normalized("x")
    /\ appState.logs # <<>>
    /\ appState.logs[Len(appState.logs)].message = "Invalid path: invalid path"
    /\ appState.logs[Len(appState.logs)].level = "ERROR"

-----------------------------------------------------------------------------
\* some handler of the main UI, some listener of backend events or some
\* continuation of an awaited call can run
MainUIActs ==
    \/ ENABLED InitAvailable
    \/ \E which \in {"log", "progress"}, ok \in BOOLEAN : ENABLED ListenSettles(which, ok)
    \/ \E ok \in BOOLEAN : ENABLED DragDropSettles(ok)
    \/ \E payload \in LogPayloads : ENABLED LogEntryEvent(payload)
    \/ \E payload \in ProgressPayloads : ENABLED ProgressUpdateEvent(payload)
    \/ ENABLED ClearLogsClick
    \/ \E value \in LogLevelOptions : ENABLED LogLevelChange(value)
    \/ ENABLED StartOverClick
    \/ ENABLED ClearButtonClick
    \/ \E e \in DropEvents : ENABLED DropEvent(e)
    \/ \E paths \in NativeDrops : ENABLED NativeDropEvent(paths)
    \/ \E kind \in {"directory", "file"} : ENABLED BrowseClick(kind)
    \/ ENABLED GoClick
    \/ \E kind \in {"folder", "report"} : ENABLED RevealClick(kind)
    \/ \E i \in 1..MaxInputs, ok \in BOOLEAN : ENABLED InputSettles(i, ok)
    \/ \E i \in 1..MaxDialogs, outcome \in DialogOutcomes : ENABLED DialogSettles(i, outcome)
    \/ \E i \in 1..MaxJobs, outcome \in JobOutcomes : ENABLED JobSettles(i, outcome)
    \/ \E i \in 1..MaxReveals, ok \in BOOLEAN : ENABLED RevealSettles(i, ok)

(* C25: when the readiness check answers false or throws, the shell is in  *)
(* a blocking error state for the rest of the session: the main UI is not  *)
(* initialised, no input, log, progress or drag-drop listener is           *)
(* registered, no job-start call is or can be issued, and the store is     *)
(* never mutated.                                                          *)
C25_BlockingErrorState ==
    /\ [](phase = "error"
            => /\ ~dom.mounted
               /\ listening = [log |-> "off", progress |-> "off", dragDrop |-> "off"]
               /\ dialogs = <<>> /\ inputs = <<>> /\ jobs = <<>> /\ reveals = <<>>
               /\ Pristine(appState)
               /\ appState.listeners = <<ShellListener>>
               /\ logPanel = [lastRenderedCount |-> 0, lastLogLevel |-> ""]
               /\ ~MainUIActs)
    /\ [][phase = "error"
            => /\ phase' = "error"
               /\ appState' = appState
               /\ dom' = dom /\ listening' = listening /\ jobs' = jobs]_vars

\* the Quit button of the error screen was clicked
C25_Witness ==
    /\ phase = "error"
    /\ lastOp.handler = "quit-button"
    /\ ~dom.mounted

-----------------------------------------------------------------------------
\* what update writes: the progress section, the bar, the text, the
\* category and the status message
ProgressDisplay(d) ==
    [section |-> d.progressSectionDisplay, bar |-> d.progressBarFill,
     text |-> d.progressText, category |-> d.taskCategory,
     status |-> d.statusMessageHtml, statusDisplay |-> d.statusMessageDisplay]

(* C26: ProgressPanel.update is idempotent: after a call of it from any    *)
(* display state, a second call with the same arguments leaves the         *)
(* progress section, bar, text, category and status message as the first   *)
(* call left them.                                                         *)
C26_ProgressUpdateIdempotent ==
    [][\A args \in UpdateArguments :
           ProgressUpdateCall(args)
               => ProgressDisplay(
                      ProgressPanel_update(World', args.current, args.total,
                                           args.taskCategory, args.isProcessing,
                                           args.statusMessage).dom)
                    = ProgressDisplay(dom')]_vars

\* update(1, 2, ...) was called while processing, then update with total 0:
\* the bar is indeterminate and the text is "..."
C26_Witness ==
    /\ lastOp.handler = "ProgressPanel.update"
    /\ dom.progressSectionDisplay = "block"
    /\ dom.progressBarFill = [width |-> 100, opacity |-> "0.6", indeterminate |-> TRUE]
    /\ dom.progressText = "..."
    /\ dom.taskCategory = "convert"
    /\ dom.statusMessageHtml = "Processing..."

-----------------------------------------------------------------------------
\* the severities of a LogEntry
Severities == {"INFO", "WARNING", "ERROR"}

(* C27: every entry stored in the logs of the store, added by the shell    *)
(* or received from the backend, has a severity among INFO, WARNING and    *)
(* ERROR.                                                                  *)
C27_SeverityEnum ==
    \A k \in 1..Len(appState.logs) : appState.logs[k].level \in Severities

\* registering the native drag-and-drop listener failed and the shell
\* logged the fallback
C27_Witness ==
    /\ listening.dragDrop = "failed"
    /\ \E k \in 1..Len(appState.logs) :
           /\ appState.logs[k].level = "WARN"
           /\ appState.logs[k].message
                = "Tauri drag and drop not available, falling back to web API"

-----------------------------------------------------------------------------
\* a catch block of a handler ran: a dialog threw, a normalization, a job
\* or a reveal call rejected, or a result could not be read
HandlerCaught ==
    \/ \E i \in 1..Len(dialogs) :
           DialogSettles(i, [type |-> "throw", error |-> "dialog failed"]) /\ now' = now
    \/ \E i \in 1..Len(inputs) : InputSettles(i, FALSE) /\ now' = now
    \/ \E i \in 1..Len(jobs) :
           \/ JobSettles(i, [ok |-> FALSE, error |-> "engine failed"]) /\ now' = now
           \/ JobSettles(i, [ok |-> TRUE, result |-> MalformedResult]) /\ now' = now
    \/ \E i \in 1..Len(reveals) : RevealSettles(i, FALSE) /\ now' = now

\* a catch block of a listener registration ran
RegistrationCaught ==
    \/ \E which \in {"log", "progress"} : ListenSettles(which, FALSE)
    \/ DragDropSettles(FALSE) /\ now' = now

\* the step appends one entry to the logs
EntryAppended ==
    /\ Len(appState'.logs) = Len(appState.logs) + 1
    /\ IsPrefix(appState.logs, appState'.logs)

\* the failures caught in handlers are logged
HandlerFailuresLogged ==
    [][lastOp'.handler \in {"browse", "handleUserInput", "startProcessing",
                            "open-folder", "open-report"}
         /\ HandlerCaught => EntryAppended]_vars

(* C28: no error is swallowed silently: every error the shell catches     *)
(* after the UI is initialised (a dialog, normalization, job or reveal     *)
(* failure, a failed registration of the log, progress or drag-drop        *)
(* listener) appends an entry to the logs of the store.                    *)
C28_NoErrorSwallowed ==
    [][(lastOp'.handler \in {"browse", "handleUserInput", "startProcessing",
                             "open-folder", "open-report", "listen",
                             "setupTauriDragDrop"}
          /\ (HandlerCaught \/ RegistrationCaught))
         => EntryAppended]_vars

\* registering the progress listener failed, and the logs are still empty
C28_Witness ==
    /\ lastOp.handler = "listen"
    /\ listening.progress = "failed"
    /\ appState.logs = <<>>

-----------------------------------------------------------------------------
\* logs the panel can be given next: the logs of the store as they are,
\* without their last entry, emptied, and with one more entry
LogsGivenNext ==
    {appState.logs, <<>>, SubSeq(appState.logs, 1, Len(appState.logs) - 1)}
        \cup { Append(appState.logs,
                      [level |-> payload.level, message |-> payload.message,
                       timestamp |-> toISOString(now)]) :
               payload \in {[level |-> "INFO", message |-> "a"],
                            [level |-> "ERROR", message |-> "c"]} }

\* the path the panel is to take on update(logs, threshold)
PathOf(logs, threshold) ==
    IF threshold # logPanel.lastLogLevel \/ Len(logs) < logPanel.lastRenderedCount
    THEN "full render"
    ELSE IF Len(logs) > logPanel.lastRenderedCount THEN "append" ELSE "no-op"

\* the panel about to take a path, its threshold noted and shown
Noted(threshold) ==
    [World EXCEPT !.dom.logLevelSelect = threshold,
                  !.logPanel.lastLogLevel = threshold]

(* C29: update renders in full iff the threshold differs from lastLogLevel *)
(* or the logs are shorter than lastRenderedCount; otherwise it appends    *)
(* iff the logs are longer than lastRenderedCount; otherwise it does       *)
(* nothing. A second update with the same logs and threshold changes       *)
(* neither what is rendered nor lastRenderedCount and lastLogLevel.        *)
C29_UpdatePath ==
    dom.mounted
        => \A logs \in LogsGivenNext, threshold \in LogLevelOptions :
               LET once == update(World, logs, threshold)
                   path == PathOf(logs, threshold)
               IN  /\ path = "full render"
                        => once = fullRender(Noted(threshold), logs, threshold)
                   /\ path = "append"
                        => once = appendLogs(Noted(threshold), logs, threshold)
                   /\ path = "no-op"
                        => /\ once.dom.logsPanel = dom.logsPanel
                           /\ once.logPanel = logPanel
                   /\ update(once, logs, threshold) = once

\* a backend entry below the threshold was appended after a shown one: the
\* panel counts two entries and shows one
C29_Witness ==
    /\ lastOp.handler = "log-entry"
    /\ Len(appState.logs) = 2
    /\ logPanel.lastRenderedCount = 2
    /\ Len(Entries(dom.logsPanel)) = 1
    /\ appState.logs[2].level = "INFO"
    /\ appState.selectedLogLevel = "WARNING"

-----------------------------------------------------------------------------
\* the panel was rendered and the store has notified nobody yet: update has
\* not run, lastLogLevel is still the empty string of the constructor
NeverUpdated ==
    /\ logPanel.lastLogLevel = ""
    /\ Pristine(appState)
    /\ dom.logsPanel = <<EmptyMessage>>

(* C30, as stated: once the UI is initialised, whenever an event can be    *)
(* delivered, lastRenderedCount is the length of logs and lastLogLevel is  *)
(* selectedLogLevel.                                                       *)
C30_InSyncOnceInitialised ==
    dom.mounted
        => /\ logPanel.lastRenderedCount = Len(appState.logs)
           /\ logPanel.lastLogLevel = appState.selectedLogLevel

(* C30, amended: once the UI is initialised, whenever an event can be      *)
(* delivered, lastRenderedCount is the length of logs (the raw count), and *)
(* lastLogLevel is selectedLogLevel from the first notification of the     *)
(* store on; until then lastLogLevel is the empty string and the store     *)
(* has its initial values.                                                 *)
C30_InSyncOnceNotified ==
    dom.mounted
        => /\ logPanel.lastRenderedCount = Len(appState.logs)
           /\ \/ logPanel.lastLogLevel = appState.selectedLogLevel
              \/ NeverUpdated

\* the threshold was raised to ERROR over three entries of which one is
\* shown: the panel counts three and has noted ERROR
C30_Witness ==
    /\ lastOp.handler = "log-level-select"
    /\ appState.selectedLogLevel = "ERROR"
    /\ logPanel.lastLogLevel = "ERROR"
    /\ Len(appState.logs) = 3
    /\ logPanel.lastRenderedCount = 3
    /\ Len(Entries(dom.logsPanel)) = 1

-----------------------------------------------------------------------------
\* the "No logs yet" message is among the children of the panel
HasPlaceholder(children) ==
    \E i \in 1..Len(children) : children[i].kind = "log-empty"

(* C31: a threshold change after which no stored entry is admitted shows   *)
(* the placeholder, not a blank panel; when the panel shows the            *)
(* placeholder and an appended entry is admitted by the threshold, the     *)
(* update removes the placeholder and shows that entry; the placeholder    *)
(* and a rendered entry are never displayed together.                      *)
C31_PlaceholderEdgeCases ==
    /\ [](dom.mounted
            => ~(HasPlaceholder(dom.logsPanel) /\ Entries(dom.logsPanel) # <<>>))
    /\ [][lastOp'.handler = "log-level-select"
            /\ filterLogsByLevel(appState'.logs, appState'.selectedLogLevel) = <<>>
            => dom'.logsPanel = <<EmptyMessage>>]_vars
    /\ [][lastOp'.handler = "log-entry"
            /\ HasPlaceholder(dom.logsPanel)
            /\ Len(appState'.logs) = Len(appState.logs) + 1
            /\ shouldShowLog(appState'.logs[Len(appState'.logs)],
                             appState'.selectedLogLevel)
            => /\ ~HasPlaceholder(dom'.logsPanel)
               /\ Display(dom'.logsPanel)
                    = <<Shown(createLogElement(appState'.logs[Len(appState'.logs)],
                                               <<0, 0>>))>>]_vars

\* the threshold was raised over a shown entry so that nothing is admitted,
\* and then an admitted entry arrived: it is shown alone
C31_Witness ==
    /\ lastOp.handler = "log-entry"
    /\ appState.selectedLogLevel = "ERROR"
    /\ Len(appState.logs) = 2
    /\ appState.logs[1].level = "WARNING"
    /\ appState.logs[2].level = "ERROR"
    /\ Len(Entries(dom.logsPanel)) = 1
    /\ ~HasPlaceholder(dom.logsPanel)
    /\ logPanel.lastLogLevel = "ERROR"

-----------------------------------------------------------------------------
(* C32: after every notification the controls agree with the store: GO is *)
(* enabled only if a path is selected and no job is processing, GO is      *)
(* hidden whenever a path is selected and a result is present, and the     *)
(* result actions are visible iff a result is present and no job is        *)
(* processing.                                                             *)
C32_ControlsAgreeWithStore ==
    dom.mounted
        => /\ ~dom.goDisabled
                => Truthy(appState.selectedPath) /\ ~appState.isProcessing
           /\ Truthy(appState.selectedPath) /\ appState.processingResult # NullResult
                => dom.goDisplay = "none"
           /\ dom.resultActionsDisplay # "none"
                <=> appState.processingResult # NullResult /\ ~appState.isProcessing

\* a job resolved with a result: GO is hidden and the result actions show
C32_Witness ==
    /\ lastOp.handler = "startProcessing"
    /\ appState.processingResult = GoodResult
    /\ ~appState.isProcessing
    /\ Truthy(appState.selectedPath)
    /\ dom.goDisplay = "none"
    /\ ~dom.goDisabled
    /\ dom.resultActionsDisplay = "flex"

-----------------------------------------------------------------------------
\* no stored entry is admitted by the threshold
NothingAdmitted ==
    filterLogsByLevel(appState.logs, appState.selectedLogLevel) = <<>>

\* the panel has no child at all
Blank(children) == children = <<>>

\* the placeholder is never shown while an entry is admitted
PlaceholderOnlyWhenNothingAdmitted ==
    dom.mounted /\ HasPlaceholder(dom.logsPanel) => NothingAdmitted

-----------------------------------------------------------------------------
(* C34: at most one start_processing call is awaited at any time, for      *)
(* every interleaving of GO clicks, Start Over, path changes and           *)
(* settlements.                                                            *)
C34_AtMostOneJob == Len(jobs) <= 1

\* GO was clicked on a newly selected path after Start Over, while the call
\* of the job started before is still awaited
C34_Witness ==
    /\ lastOp.handler = "go-button"
    /\ Len(jobs) = 2
    /\ appState.isProcessing
    /\ appState.selectedPath = jobs[2]

-----------------------------------------------------------------------------
\* Start Over was the last thing done and a call is awaited: every awaited
\* call was started before the reset
ResetWhileAwaited ==
    /\ lastOp.handler = "start-over-button"
    /\ jobs # <<>>

(* C35: after a reset processingResult stays null and statusMessage stays  *)
(* empty until the user starts a new job: the settlement of a job started  *)
(* before the reset writes neither its result, nor a status message, nor   *)
(* a change of isProcessing into the state after the reset.                *)
C35_SettlementAfterResetWritesNothing ==
    [][ResetWhileAwaited /\ lastOp'.handler = "startProcessing"
         => /\ appState'.processingResult = NullResult
            /\ appState'.statusMessage = ""
            /\ appState'.isProcessing = appState.isProcessing
            /\ "setProcessing" \notin {lastOp'.calls[k] : k \in 1..Len(lastOp'.calls)}]_vars

\* a job started before Start Over resolved after it: no path is selected,
\* and the store holds the result and the status of that job
C35_Witness ==
    /\ lastOp.handler = "startProcessing"
    /\ jobs = <<>>
    /\ appState.selectedPath = Null
    /\ appState.processingResult = GoodResult
    /\ appState.statusMessage # ""

-----------------------------------------------------------------------------
\* the handlers of the user events that select or clear a path
PathEvents == {"clear-button", "drop", "native-drop", "browse", "handleUserInput"}

(* C36: while a job is awaited selectedPath keeps the value the job was    *)
(* started with: no clear click, drop or dialog selection changes it       *)
(* between start and settlement, so a result stored at settlement belongs  *)
(* to the selected path.                                                   *)
C36_PathKeptWhileProcessing ==
    [][/\ jobs # <<>> /\ lastOp'.handler \in PathEvents
            => appState'.selectedPath = appState.selectedPath
       /\ lastOp'.handler = "startProcessing"
            => \A i \in 1..Len(jobs) :
                   Succeeds(i) => appState'.selectedPath = jobs[i]]_vars

\* the path was cleared while the call of its job is awaited
C36_Witness ==
    /\ lastOp.handler = "clear-button"
    /\ Len(jobs) = 1
    /\ appState.isProcessing
    /\ appState.selectedPath = Null

-----------------------------------------------------------------------------
\* what handleUserInput does to w once its call resolved for the raw path
\* `path`, at the instant `instant`
resolvedInput(w, path, instant) ==
    addLogAt(setSelectedPath(w, normalized(path)), "INFO",
             "Selected: " \o normalized(path), instant)

(* C37: when two handleUserInput calls overlap, then after both have       *)
(* resolved selectedPath is the normalized path of the input initiated     *)
(* last, in whichever order the two calls resolve.                         *)
C37_LastInitiatedWins ==
    [][Len(inputs) = 2 /\ inputs[1] # inputs[2]
         /\ lastOp'.handler = "handleUserInput"
         => \A i \in 1..2 :
                Normalizes(i)
                    => resolvedInput(World', inputs'[1], now').appState.selectedPath
                         = normalized(inputs[2])]_vars

\* two dialogs answered "y" and then "x", or "x" and then "y"; the call for
\* "y" resolved first, the call for "x" last: "/x" is selected
C37_Witness ==
    /\ lastOp.handler = "handleUserInput"
    /\ inputs = <<>>
    /\ appState.selectedPath = normalized("x")
    /\ Len(appState.logs) = 2
    /\ appState.logs[1].message = "Selected: " \o normalized("y")
    /\ appState.logs[2].message = "Selected: " \o normalized("x")

-----------------------------------------------------------------------------
\* every other registration of the array stays: one registration of
\* `listener` is gone, the others are where they were
OneRegistrationRemoved(before, after, listener) ==
    \E k \in 1..Len(before) :
        /\ before[k] = listener
        /\ after = Remove(before, k)

(* C38: the function subscribe returned removes exactly the registration   *)
(* that created it: every other registration, another registration of the *)
(* same function included, stays and keeps being notified.                 *)
C38_UnsubscribeRemovesOne ==
    [][lastOp'.handler = "unsubscribe"
         => OneRegistrationRemoved(appState.listeners, appState'.listeners,
                                   lastOp'.delivered[1].listener)]_vars

\* the function returned by a subscription of the observer was called: no
\* listener is registered any more
C38_Witness ==
    /\ lastOp.handler = "unsubscribe"
    /\ Len(lastOp.delivered) = 1
    /\ lastOp.delivered[1].listener = "observer"
    /\ appState.listeners = <<>>

-----------------------------------------------------------------------------
\* the Start button is disabled while a request is awaited, and at most one
\* request is awaited
OneRequestWhileDisabled ==
    /\ jobs # <<>> => dom.startDisabled
    /\ Len(jobs) <= 1

\* the first version of the view keeps to it
FirstVersionOneRequest ==
    phase = "first version" => OneRequestWhileDisabled

\* the settlement of a request enables the Start button again
EnabledAtSettlement ==
    [][lastOp'.handler = "start_file_conversion" /\ phase \in ViewVersions
         => ~dom'.startDisabled]_vars

(* C39: in the File Conversion view the Start button is disabled for the   *)
(* whole time a start_file_conversion request is awaited, so at most one   *)
(* request per view is awaited for any sequence of Start clicks, clicks    *)
(* arriving while the registration of the log listener is awaited          *)
(* included.                                                               *)
C39_OneConversionRequest ==
    phase \in ViewVersions => OneRequestWhileDisabled

\* Start was clicked twice while the log listener was being registered; the
\* registration settled and both handlers called start_file_conversion
C39_Witness ==
    /\ phase = "second version"
    /\ lastOp.handler = "setupLogListener"
    /\ listening.log = "on"
    /\ Len(jobs) = 2
    /\ inputs = <<>>
    /\ dom.startDisabled

====
